---- MODULE Spec2Model ----
(***************************************************************************)
(* A model of the CSV readers of oleg578/csvc.                             *)
(*                                                                         *)
(* Bytes are one-character strings, byte strings are sequences of bytes.   *)
(* The byte source is a finite byte string `input` followed by the error   *)
(* `srcErr` the source reports once all bytes are delivered (io.EOF or an  *)
(* I/O error).  Every Read call is one action; its result is appended to   *)
(* the call history `hist`.                                                *)
(***************************************************************************)
EXTENDS Integers, Sequences, FiniteSets, TLC

\* ------------------------------------------------------------------ bounds

\* longest input of the Reader of csvc.go, in bytes
MaxLen == 4
\* longest input of the Readers of part_007, in bytes
MaxLenRFC == 5
\* most bytes the source delivers in one Read
MaxChunk == 3
\* most Read calls made on one Reader
MaxReads == 4
MaxRecords == 3

\* ------------------------------------------------------------------ bytes

ASCII_LF == "\n"
ASCII_CR == "\r"
ASCII_DQ == "\""
ASCII_COMMA == ","
SP == " "
HASH == "#"

\* Comment = 0 (no comment character)
NoComment == "NUL"

\* the bytes inputs are made of
Alphabet == {"a", ASCII_COMMA, ASCII_DQ, ASCII_LF, ASCII_CR, SP, HASH}

\* the byte strings over A of length at most n
Strings(A, n) == UNION {[1..k -> A] : k \in 0..n}

\* unicode.IsSpace over the alphabet (strings.TrimSpace)
IsSpace(c) == c \in {SP, ASCII_CR, ASCII_LF, "\t"}

\* errors
ErrNil == "nil"
EOF == "io.EOF"
ErrIO == "ErrIO"
ErrFieldCount == "ErrFieldCount"
ErrBufferFull == "ErrBufferFull"

ErrBareQuote == "ErrBareQuote"
ErrUnterminatedQuote == "ErrUnterminatedQuote"

\* the result of one Read call; rec = <<>> is the nil record, line and column
\* are those of a *ParseError (0 for any other error and for nil)
Result(rec, err) == [rec |-> rec, err |-> err, line |-> 0, column |-> 0]

\* ------------------------------------------------------------------ state

VARIABLES
    impl,       \* which Reader of the repository reads the source
    input,      \* the bytes of the source
    srcErr,     \* what the source reports after the last byte
    srcChunk,   \* most bytes one Read of the source delivers
    srcEager,   \* TRUE: the source reports srcErr together with its last bytes
    opts,       \* the exported fields as the caller set them before reading
    r,          \* the Reader of csvc.go
    pr,         \* the ParseError-reporting Reader
    br,         \* the byte-at-a-time Reader
    ar,         \* the automaton Reader (of part_006 or the optimized one)
    all,        \* what ReadAll returned, NotCalled before its call
    hist,       \* results of the Read calls so far, in call order
    heap,       \* the memory behind the records of the ParseError-reporting Reader
    pc          \* where the Read call in progress stands, Idle between calls

vars == <<impl, input, srcErr, srcChunk, srcEager, opts, r, pr, br, ar, all, hist, heap, pc>>

\* no Read call is in progress
Idle == [at |-> "idle", b |-> "", stalls |-> 0]

\* ------------------------------------------------------- src/csvc.go Reader

defaultDelimiter == ASCII_COMMA
\* a default without comment character
defaultCommentOff == NoComment

defaultComment == HASH
defaultLazyQuotes == FALSE

\* index of the first LF of inp after position pos (0-based pos), 0 if none
RECURSIVE IndexLF(_, _)
IndexLF(inp, i) ==
    IF i > Len(inp) THEN 0
    ELSE IF inp[i] = ASCII_LF THEN i
    ELSE IndexLF(inp, i + 1)

\* a readLine that reports the end of input as soon as no LF is left
readLineDropsLast(inp, pos, serr) ==
    LET nl == IndexLF(inp, pos + 1) IN
    IF nl = 0 THEN [line |-> <<>>, err |-> serr, pos |-> Len(inp)]
    ELSE LET drop == IF nl - 1 > pos /\ inp[nl - 1] = ASCII_CR THEN 2 ELSE 1
         IN [line |-> SubSeq(inp, pos + 1, nl - drop), err |-> ErrNil, pos |-> nl]

\* bufio.Reader.ReadLine, looped over isPrefix: the bytes up to the next LF
\* without the LF and without one CR before it; at end of input the rest of
\* the bytes, or the source's error when no byte is left.
readLine(inp, pos, serr) ==
    IF pos >= Len(inp) THEN [line |-> <<>>, err |-> serr, pos |-> pos]
    ELSE LET nl == IndexLF(inp, pos + 1) IN
         IF nl = 0 THEN [line |-> SubSeq(inp, pos + 1, Len(inp)), err |-> ErrNil,
                         pos |-> Len(inp)]
         ELSE LET drop == IF nl - 1 > pos /\ inp[nl - 1] = ASCII_CR THEN 2 ELSE 1
              IN [line |-> SubSeq(inp, pos + 1, nl - drop), err |-> ErrNil, pos |-> nl]

\* strings.TrimSpace
RECURSIVE TrimLeft(_)
TrimLeft(s) == IF s # <<>> /\ IsSpace(Head(s)) THEN TrimLeft(Tail(s)) ELSE s

RECURSIVE TrimRight(_)
TrimRight(s) ==
    IF s # <<>> /\ IsSpace(s[Len(s)]) THEN TrimRight(SubSeq(s, 1, Len(s) - 1)) ELSE s

TrimSpace(s) == TrimRight(TrimLeft(s))

\* strings.ReplaceAll(s, `""`, `"`): left to right, non-overlapping
RECURSIVE ReplaceAllDQ(_)
ReplaceAllDQ(s) ==
    IF Len(s) < 2 THEN s
    ELSE IF s[1] = ASCII_DQ /\ s[2] = ASCII_DQ
         THEN <<ASCII_DQ>> \o ReplaceAllDQ(SubSeq(s, 3, Len(s)))
         ELSE <<s[1]>> \o ReplaceAllDQ(Tail(s))

\* The boundary scan of Read (the for loop): i and fieldStart are the 0-based
\* indexes of the code, idx is r.fieldIndexes.
RECURSIVE scanBounds(_, _, _, _, _, _)
scanBounds(line, comma, i, inQuotes, fieldStart, idx) ==
    IF i >= Len(line) THEN [fieldIndexes |-> idx, fieldStart |-> fieldStart]
    ELSE LET c == line[i + 1] IN
         IF c = ASCII_DQ THEN
             IF inQuotes THEN
                 IF i + 1 < Len(line) /\ line[i + 2] = ASCII_DQ
                 THEN scanBounds(line, comma, i + 2, TRUE, fieldStart, idx)
                 ELSE scanBounds(line, comma, i + 1, FALSE, fieldStart, idx)
             ELSE scanBounds(line, comma, i + 1, TRUE, fieldStart, idx)
         ELSE IF c = comma /\ ~inQuotes
         THEN scanBounds(line, comma, i + 1, inQuotes, i + 1, idx \o <<fieldStart, i>>)
         ELSE scanBounds(line, comma, i + 1, inQuotes, fieldStart, idx)

\* r.fieldIndexes after the scan, the last field and the trailing-comma case
fieldIndexesOf(line, comma) ==
    LET s == scanBounds(line, comma, 0, FALSE, 0, <<>>)
        last == IF s.fieldStart <= Len(line)
                THEN s.fieldIndexes \o <<s.fieldStart, Len(line)>>
                ELSE s.fieldIndexes
    IN IF Len(line) > 0 /\ line[Len(line)] = comma
       THEN last \o <<Len(line), Len(line)>>
       ELSE last

\* an extraction that removes the surrounding quotes and keeps doubled quotes
extractFieldKeepDoubled(line, start, end) ==
    LET field == SubSeq(line, start + 1, end) IN
    IF Len(field) >= 2 /\ field[1] = ASCII_DQ /\ field[Len(field)] = ASCII_DQ
    THEN SubSeq(field, 2, Len(field) - 1)
    ELSE field

\* one extracted field: line[start:end] with surrounding quotes removed
extractField(line, start, end) ==
    LET field == SubSeq(line, start + 1, end) IN
    IF Len(field) >= 2 /\ field[1] = ASCII_DQ /\ field[Len(field)] = ASCII_DQ
    THEN ReplaceAllDQ(SubSeq(field, 2, Len(field) - 1))
    ELSE field

\* the record Read builds from a trimmed, non-empty line
parseLine(line, comma) ==
    LET idx == fieldIndexesOf(line, comma) IN
    [k \in 1..(Len(idx) \div 2) |-> extractField(line, idx[2 * k - 1], idx[2 * k])]

\* a skip test that forgets comment lines
skipLineBlankOnly(line, comment) == line = <<>>

\* the test of Read that skips a line
skipLine(line, comment) ==
    line = <<>> \/ (comment # NoComment /\ line[1] = comment)

\* a failure path that returns a record of one empty field with the error
readLineFailedWithRecord(rd, err) == [rd |-> rd, res |-> Result(<< <<>> >>, err)]

\* Read when readLine fails: no record, the error of readLine
readLineFailed(rd, err) == [rd |-> rd, res |-> Result(<<>>, err)]

\* a validation that refuses only the records with too few fields
tooFewFields(rd, record) ==
    rd.FieldsPerRecord > 0 /\ Len(record) < rd.FieldsPerRecord

\* the validation of Read: a positive FieldsPerRecord that is not the number
\* of fields of the record
wrongFieldCount(rd, record) ==
    rd.FieldsPerRecord > 0 /\ Len(record) # rd.FieldsPerRecord

\* a Reader that never stores the number of fields of a record
fieldsPerRecordKept(rd, record) == rd.FieldsPerRecord

\* FieldsPerRecord after a record that passed the validation: a FieldsPerRecord
\* of 0 becomes the number of fields of the record
fieldsPerRecordAfter(rd, record) ==
    IF rd.FieldsPerRecord = 0 THEN Len(record) ELSE rd.FieldsPerRecord

\* a Reader that takes the number of fields of the record it refuses
afterFieldCountErrorLearns(rd, record) == [rd EXCEPT !.FieldsPerRecord = Len(record)]

\* the Reader after the return of ErrFieldCount: the line is consumed, no
\* field of the Reader is written
afterFieldCountError(rd, record) == rd

\* Reader.Read: the reader state rd after the call and the result returned
\* One activation of Read after its readLine returned l, of which line is the
\* trimmed line, up to its return or its recursive call: skip says that the
\* line was blank or a comment and Read calls itself.
afterReadLine(rd, l, line) ==
    IF l.err # ErrNil
    THEN LET f == readLineFailed(rd, l.err) IN [skip |-> FALSE, rd |-> f.rd, res |-> f.res]
    ELSE LET rd1 == [rd EXCEPT !.pos = l.pos, !.numLine = @ + 1]
         IN IF skipLine(line, rd.Comment)
            THEN [skip |-> TRUE, rd |-> rd1, res |-> Result(<<>>, ErrNil)]
            ELSE LET record == parseLine(line, rd.Comma) IN
                 IF wrongFieldCount(rd, record)
                 THEN [skip |-> FALSE, rd |-> afterFieldCountError(rd1, record),
                       res |-> Result(<<>>, ErrFieldCount)]
                 ELSE [skip |-> FALSE,
                       rd |-> [rd1 EXCEPT !.FieldsPerRecord = fieldsPerRecordAfter(rd, record)],
                       res |-> Result(record, ErrNil)]

\* one activation of Read
readOnce(rd, inp, serr) ==
    LET l == readLine(inp, rd.pos, serr) IN afterReadLine(rd, l, TrimSpace(l.line))

\* Reader.Read: what the last activation returns is returned by all
RECURSIVE Read(_, _, _)
Read(rd, inp, serr) ==
    LET o == readOnce(rd, inp, serr) IN
    IF o.skip THEN Read(o.rd, inp, serr) ELSE [rd |-> o.rd, res |-> o.res]

\* a loop that returns the records read so far together with the error
readAllKeepsRecords(records, err) == [records |-> records, err |-> err]

\* the returns of ReadAll: at io.EOF the records and a nil error, at any other
\* error no records and the error
readAllReturn(records, err) ==
    IF err = EOF THEN [records |-> records, err |-> ErrNil]
    ELSE [records |-> <<>>, err |-> err]

\* Reader.ReadAll: Read is called until it returns an error
RECURSIVE ReadAll(_, _, _, _)
ReadAll(rd, inp, serr, records) ==
    LET out == Read(rd, inp, serr) IN
    IF out.res.err # ErrNil THEN [rd |-> out.rd, res |-> readAllReturn(records, out.res.err)]
    ELSE ReadAll(out.rd, inp, serr, Append(records, out.res.rec))

\* NewReader
NewReader ==
    [Comma |-> defaultDelimiter, Comment |-> defaultComment, FieldsPerRecord |-> 0,
     LazyQuotes |-> defaultLazyQuotes, numLine |-> 0, pos |-> 0]

\* the caller's setting of the exported fields of a new Reader
Configured(rd, o) ==
    [rd EXCEPT !.Comma = o.Comma, !.Comment = o.Comment,
               !.FieldsPerRecord = o.FieldsPerRecord]

\* ------------------------- src/unnamed/part_007: the ParseError-reporting Reader

Min(a, b) == IF a < b THEN a ELSE b

\* the byte of a failed readByte or peekByte
NUL == "NUL"

\* a source that returns neither a byte nor an error
srcReadNothing(src, pos) == [n |-> 0, data |-> <<>>, err |-> ErrNil]

\* io.Reader.Read of the source at position pos: at most chunk bytes; the
\* source's error comes with the last bytes (eager) or on the next call
srcRead(src, pos) ==
    LET remaining == Len(src.input) - pos
        n == Min(src.chunk, remaining)
    IN IF remaining = 0 THEN [n |-> 0, data |-> <<>>, err |-> src.err]
       ELSE [n |-> n, data |-> SubSeq(src.input, pos + 1, pos + n),
             err |-> IF src.eager /\ n = remaining THEN src.err ELSE ErrNil]

\* the refill of readByte and peekByte: the call of r.src.Read returned rd
fill(st, rd) ==
    [st EXCEPT !.buf = rd.data, !.bufPos = 0, !.bufLen = rd.n, !.bufErr = rd.err,
               !.srcPos = @ + rd.n, !.srcReads = @ + 1]

\* r.src.Read was called and returned no byte (srcReads counts the calls)
called(st) == [st EXCEPT !.srcReads = @ + 1]

\* Reader.readByte
readByte(st, src) ==
    IF st.bufPos < st.bufLen
    THEN [b |-> st.buf[st.bufPos + 1], err |-> ErrNil, st |-> [st EXCEPT !.bufPos = @ + 1]]
    ELSE IF st.bufErr # ErrNil
    THEN [b |-> NUL, err |-> st.bufErr, st |-> [st EXCEPT !.bufErr = ErrNil]]
    ELSE LET rd == srcRead(src, st.srcPos) IN
         IF rd.n = 0 THEN [b |-> NUL, err |-> rd.err, st |-> called(st)]
         ELSE [b |-> rd.data[1], err |-> ErrNil,
               st |-> [fill(st, rd) EXCEPT !.bufPos = 1]]

\* Reader.peekByte
peekByte(st, src) ==
    IF st.bufPos < st.bufLen
    THEN [b |-> st.buf[st.bufPos + 1], err |-> ErrNil, st |-> st]
    ELSE IF st.bufErr # ErrNil
    THEN [b |-> NUL, err |-> st.bufErr, st |-> st]
    ELSE LET rd == srcRead(src, st.srcPos) IN
         IF rd.n = 0 THEN [b |-> NUL, err |-> rd.err, st |-> called(st)]
         ELSE [b |-> rd.data[1], err |-> ErrNil, st |-> fill(st, rd)]

\* a Reader that forgets that the stream has ended
isFinishedNever(rd) == FALSE

\* the test of r.finished at the start of Read
isFinished(rd) == rd.finished

\* Reader.wrapError
wrapError(st, column, err) ==
    [rec |-> <<>>, err |-> err, line |-> st.line, column |-> column]

\* Reader.buildRecord: the fields are the slices of dataBuf between the bounds
buildRecord(st) ==
    [i \in 1..(Len(st.fieldBounds) \div 2) |->
        SubSeq(st.dataBuf, st.fieldBounds[2 * i - 1] + 1, st.fieldBounds[2 * i])]

\* the end of a field: its bounds are recorded, the next field starts here
endField(st) ==
    [st EXCEPT !.fieldBounds = @ \o <<st.fieldStart, Len(st.dataBuf)>>,
               !.fieldStart = Len(st.dataBuf),
               !.sawQuotedField = FALSE]

\* a doubled quote of which only the first quote is consumed
escapedQuoteNoSkip(st, quote, curColumn) ==
    [st EXCEPT !.dataBuf = Append(@, quote), !.column = curColumn + 2]

\* a doubled quote inside a quoted field: one quote is data, both are consumed
escapedQuote(st, quote, curColumn) ==
    [st EXCEPT !.bufPos = @ + 1, !.dataBuf = Append(@, quote), !.column = curColumn + 2]

\* a CR after which the LF is left in the buffer
afterCRKeepsLF(pk) == pk.st

\* the Reader after a CR outside quotes and the peek pk behind it: an LF that
\* follows is consumed with the CR
afterCR(pk) ==
    IF pk.err = ErrNil /\ pk.b = ASCII_LF THEN [pk.st EXCEPT !.bufPos = @ + 1] ELSE pk.st

\* a test that lets any quote outside quotes open a quoted field
opensQuotedFieldAnywhere(st) == TRUE

\* the test of a quote outside quotes: it opens a quoted field when no byte
\* of the field was read yet and no quoted text was closed in it
opensQuotedField(st) == Len(st.dataBuf) = st.fieldStart /\ ~st.sawQuotedField

\* a test at the end of the input that forgets the open quoted field
endsInsideQuotesNever(st) == FALSE

\* the test at the end of the input: a quoted field is open
endsInsideQuotes(st) == st.inQuotes

\* a line counter that a byte inside quotes never advances
lineInQuotesKept(line, b) == line

\* the line counter after the byte b inside quotes: an LF there is a line break
lineInQuotes(line, b) == IF b = ASCII_LF THEN line + 1 ELSE line

\* what Read returns and the Reader it leaves
Return(st, res) == [st |-> st, res |-> res]

\* one pass of the loop of Read ends the call with the result res, or goes on
Done(st, res) == [done |-> TRUE, st |-> st, res |-> res]
Continue(st) == [done |-> FALSE, st |-> st, res |-> Result(<<>>, ErrNil)]

\* the loop of Read after a readByte that returned the error err
onReadError(st, err) ==
    IF err = EOF THEN
        IF endsInsideQuotes(st)
        THEN Done([st EXCEPT !.finished = TRUE],
                  wrapError(st, st.column, ErrUnterminatedQuote))
        ELSE IF Len(st.fieldBounds) > 0 \/ Len(st.dataBuf) > 0 \/ st.sawQuotedField
        THEN LET e == [st EXCEPT !.fieldBounds = @ \o <<st.fieldStart, Len(st.dataBuf)>>,
                                 !.finished = TRUE]
             IN Done(e, Result(buildRecord(e), ErrNil))
        ELSE Done([st EXCEPT !.finished = TRUE], Result(<<>>, EOF))
    ELSE Done(st, Result(<<>>, err))

\* the bytes after which Read calls peekByte: a quote inside quotes and a CR
\* outside quotes
needsPeek(st, b, comma, quote) ==
    IF st.inQuotes THEN b = quote
    ELSE b # comma /\ b # ASCII_LF /\ b = ASCII_CR

\* the loop of Read after the byte b and the peek pk behind it
afterPeek(b, pk, quote) ==
    LET curColumn == pk.st.column IN
    IF pk.st.inQuotes THEN
        IF pk.err = ErrNil /\ pk.b = quote
        THEN Continue(escapedQuote(pk.st, quote, curColumn))
        ELSE IF pk.err # ErrNil /\ pk.err # EOF
        THEN Done(pk.st, Result(<<>>, pk.err))
        ELSE Continue([pk.st EXCEPT !.inQuotes = FALSE, !.column = curColumn + 1])
    ELSE
        LET s1 == afterCR(pk) IN
        IF pk.err # ErrNil /\ pk.err # EOF
        THEN Done(s1, Result(<<>>, pk.err))
        ELSE LET e == [endField(s1) EXCEPT !.line = @ + 1, !.column = 1]
             IN Done(e, Result(buildRecord(e), ErrNil))

\* the loop of Read after a byte b that needs no peek
afterByte(st, b, comma, quote) ==
    LET curColumn == st.column IN
    IF st.inQuotes
    THEN Continue([st EXCEPT !.line = lineInQuotes(@, b),
                             !.column = IF b = ASCII_LF THEN 1 ELSE curColumn + 1,
                             !.dataBuf = Append(@, b)])
    ELSE IF b = comma
    THEN Continue([endField(st) EXCEPT !.column = curColumn + 1])
    ELSE IF b = ASCII_LF
    THEN LET e == [endField(st) EXCEPT !.line = @ + 1, !.column = 1]
         IN Done(e, Result(buildRecord(e), ErrNil))
    ELSE IF b = quote
    THEN IF opensQuotedField(st)
         THEN Continue([st EXCEPT !.inQuotes = TRUE, !.sawQuotedField = TRUE,
                                  !.column = curColumn + 1])
         ELSE Done(st, wrapError(st, curColumn, ErrBareQuote))
    ELSE Continue([st EXCEPT !.dataBuf = Append(@, b), !.column = curColumn + 1])

\* The loop of Reader.Read. st holds the Reader's fields and the locals
\* inQuotes, sawQuotedField, column and fieldStart.
RECURSIVE parseLoop(_, _, _, _)
parseLoop(st0, src, comma, quote) ==
    LET rb == readByte(st0, src)
        s == IF rb.err # ErrNil THEN onReadError(rb.st, rb.err)
             ELSE IF needsPeek(rb.st, rb.b, comma, quote)
             THEN afterPeek(rb.b, peekByte(rb.st, src), quote)
             ELSE afterByte(rb.st, rb.b, comma, quote)
    IN IF s.done THEN Return(s.st, s.res) ELSE parseLoop(s.st, src, comma, quote)

\* Reader.Read of the ParseError-reporting Reader
ReadParse(rd, src) ==
    IF isFinished(rd) THEN Return(rd, Result(<<>>, EOF))
    ELSE LET comma == IF rd.Comma = NUL THEN ASCII_COMMA ELSE rd.Comma
             quote == IF rd.Quote = NUL THEN ASCII_DQ ELSE rd.Quote
             out == parseLoop([rd EXCEPT !.dataBuf = <<>>, !.fieldBounds = <<>>,
                                     !.inQuotes = FALSE, !.sawQuotedField = FALSE,
                                     !.column = 1, !.fieldStart = 0],
                              src, comma, quote)
         IN \* the locals die with the call
            Return([out.st EXCEPT !.inQuotes = FALSE, !.sawQuotedField = FALSE,
                                  !.column = 1, !.fieldStart = 0],
                   out.res)

\* NewReader of the ParseError-reporting Reader
NewParseReader(reuse) ==
    [Comma |-> ASCII_COMMA, Quote |-> ASCII_DQ, ReuseRecord |-> reuse,
     buf |-> <<>>, bufPos |-> 0, bufLen |-> 0, bufErr |-> ErrNil, srcPos |-> 0,
     srcReads |-> 0, dataBuf |-> <<>>, fieldBounds |-> <<>>, finished |-> FALSE, line |-> 1,
     inQuotes |-> FALSE, sawQuotedField |-> FALSE, column |-> 1, fieldStart |-> 0]


\* ---- the memory behind the records of the ParseError-reporting Reader
\*
\* heap.arrays are the elements written so far of the backing arrays of
\* []string that NewReader and buildRecord made, in order of allocation;
\* heap.record is the slice header r.record, heap.dataBuf the bytes of the
\* backing array of r.dataBuf (no record of the model exceeds its capacity of
\* 512 bytes, so append never moves it), heap.returned the slice header each
\* Read returned.  A string is a slice of the immutable copy that one Read
\* made of its bytes, or a view of the bytes start..end of the backing array
\* of r.dataBuf.

\* the capacity of r.record that NewReader allocates
recordCap == 16

\* the nil slice
NilSlice == [arr |-> 0, len |-> 0, cap |-> 0]

\* field k of string(r.dataBuf) as the n-th Read made it
CopyOf(n, k) == <<FALSE, n, k>>

\* unsafe.String over the backing array of r.dataBuf, sliced [start:end]
\* (with no byte in r.dataBuf the string is "", which start = end = 0 gives)
ViewOf(start, end) == <<TRUE, start, end>>

\* the memory after NewReader
NewHeap ==
    [arrays |-> << <<>> >>,
     record |-> [arr |-> 1, len |-> 0, cap |-> recordCap],
     dataBuf |-> <<>>,
     returned |-> <<>>]

\* the backing array of r.dataBuf after r.dataBuf = r.dataBuf[:0] and the
\* appends that made it dataBuf: the bytes behind its length stay
dataBufMemory(mem, dataBuf) == dataBuf \o SubSeq(mem, Len(dataBuf) + 1, Len(mem))

\* a buildRecord that never copies r.dataBuf
fieldStringsViewed(st, n) ==
    [i \in 1..(Len(st.fieldBounds) \div 2) |->
        ViewOf(st.fieldBounds[2 * i - 1], st.fieldBounds[2 * i])]

\* the strings buildRecord stores in the n-th Read: slices of recordStr,
\* which is a copy of r.dataBuf, or with ReuseRecord a view of its backing
\* array
fieldStrings(st, n) ==
    [i \in 1..(Len(st.fieldBounds) \div 2) |->
        IF st.ReuseRecord
        THEN ViewOf(st.fieldBounds[2 * i - 1], st.fieldBounds[2 * i])
        ELSE CopyOf(n, i)]

\* a buildRecord that allocates a new array for every record
mustAllocateAlways(st, record, fieldCount) == TRUE

\* buildRecord allocates: always without ReuseRecord, with it only when the
\* capacity of r.record is less than the number of fields
mustAllocate(st, record, fieldCount) == ~st.ReuseRecord \/ record.cap < fieldCount

\* r.record at the start of Read: r.record[:0] with ReuseRecord, else nil
recordAtStart(rd, record) ==
    IF rd.ReuseRecord THEN [record EXCEPT !.len = 0] ELSE NilSlice

\* the memory after buildRecord for the Reader st
buildRecordMemory(h, st) ==
    LET fieldCount == Len(st.fieldBounds) \div 2
        strs == fieldStrings(st, Len(h.returned) + 1)
    IN IF mustAllocate(st, h.record, fieldCount)
       THEN [h EXCEPT !.arrays = Append(@, strs),
                      !.record = [arr |-> Len(h.arrays) + 1, len |-> fieldCount,
                                  cap |-> fieldCount]]
       ELSE [h EXCEPT !.arrays[h.record.arr] =
                          strs \o SubSeq(@, fieldCount + 1, Len(@)),
                      !.record = [@ EXCEPT !.len = fieldCount]]

\* the memory after the Read of Reader rd that ended as out
heapAfterRead(h, rd, out) ==
    IF rd.finished THEN [h EXCEPT !.returned = Append(@, NilSlice)]
    ELSE LET h1 == [h EXCEPT !.record = recordAtStart(rd, @),
                             !.dataBuf = dataBufMemory(@, out.st.dataBuf)]
         IN IF out.res.err # ErrNil THEN [h1 EXCEPT !.returned = Append(@, NilSlice)]
            ELSE LET h2 == buildRecordMemory(h1, out.st)
                 IN [h2 EXCEPT !.returned = Append(@, h2.record)]

\* ------------------------------- src/unnamed/part_007: the byte-at-a-time Reader

\* The loop of Read over bufio.Reader.ReadByte: pos is the number of bytes the
\* bufio.Reader has handed out, fields and field are the locals of the code.
RECURSIVE byteLoop(_, _, _, _, _, _, _)
byteLoop(inp, serr, comma, pos, fields, field, inQuotes) ==
    IF pos >= Len(inp)
    THEN [pos |-> pos,
          res |-> Result(IF serr = EOF /\ Len(field) > 0 THEN Append(fields, field)
                         ELSE fields, serr)]
    ELSE LET ch == inp[pos + 1]
             p1 == pos + 1
             more == p1 < Len(inp)
         IN
         IF ch = ASCII_DQ THEN
             IF inQuotes THEN
                 IF more /\ inp[p1 + 1] = ASCII_DQ
                 THEN byteLoop(inp, serr, comma, p1 + 1, fields, Append(field, ASCII_DQ), TRUE)
                 ELSE byteLoop(inp, serr, comma, p1, fields, field, FALSE)
             ELSE byteLoop(inp, serr, comma, p1, fields, field, TRUE)
         ELSE IF ch = comma THEN
             IF inQuotes
             THEN byteLoop(inp, serr, comma, p1, fields, Append(field, ch), inQuotes)
             ELSE byteLoop(inp, serr, comma, p1, Append(fields, field), <<>>, inQuotes)
         ELSE IF ch = ASCII_LF THEN
             IF inQuotes
             THEN byteLoop(inp, serr, comma, p1, fields, Append(field, ch), inQuotes)
             ELSE [pos |-> p1, res |-> Result(Append(fields, field), ErrNil)]
         ELSE IF ch = ASCII_CR THEN
             IF inQuotes
             THEN byteLoop(inp, serr, comma, p1, fields, Append(field, ch), inQuotes)
             ELSE IF more /\ inp[p1 + 1] = ASCII_LF
                  THEN [pos |-> p1 + 1, res |-> Result(Append(fields, field), ErrNil)]
                  ELSE byteLoop(inp, serr, comma, p1, fields, Append(field, ch), inQuotes)
         ELSE byteLoop(inp, serr, comma, p1, fields, Append(field, ch), inQuotes)

\* Reader.Read with a bytes.Buffer per call
ReadBytes(rd, inp, serr) ==
    LET out == byteLoop(inp, serr, rd.Comma, rd.pos, <<>>, <<>>, FALSE)
    IN [rd |-> [rd EXCEPT !.pos = out.pos], res |-> out.res]

\* Reader.Read with the reused fieldBuf, which every call resets first
ReadFieldBuf(rd, inp, serr) ==
    LET out == byteLoop(inp, serr, rd.Comma, rd.pos, <<>>, <<>>, FALSE)
    IN [rd |-> [rd EXCEPT !.pos = out.pos], res |-> out.res]

\* NewReader of the byte-at-a-time Readers
NewByteReader == [Comma |-> ASCII_COMMA, pos |-> 0]

\* --------------------------- src/unnamed/part_007: the optimized automaton Reader

\* the size of the bufio.Reader that NewReader puts around the source
bufioSize == 8192

\* bufio.Reader.ReadSlice('\n') at position pos with a buffer of size bytes: the
\* bytes up to and with the next LF and a nil error; size bytes and
\* ErrBufferFull when the buffer fills before an LF is found; or the bytes left
\* and the error of the source
readSlice(inp, pos, serr, size) ==
    IF pos >= Len(inp) THEN [chunk |-> <<>>, err |-> serr, pos |-> pos]
    ELSE LET nl == IndexLF(inp, pos + 1) IN
         IF nl # 0 /\ nl - pos <= size
         THEN [chunk |-> SubSeq(inp, pos + 1, nl), err |-> ErrNil, pos |-> nl]
         ELSE IF Len(inp) - pos >= size
         THEN [chunk |-> SubSeq(inp, pos + 1, pos + size), err |-> ErrBufferFull,
               pos |-> pos + size]
         ELSE [chunk |-> SubSeq(inp, pos + 1, Len(inp)), err |-> serr, pos |-> Len(inp)]

\* the quote scan of readRecord over buf from the 0-based index i on
RECURSIVE quoteScan(_, _, _)
quoteScan(buf, i, insideQuoted) ==
    IF i >= Len(buf) THEN insideQuoted
    ELSE IF buf[i + 1] = ASCII_DQ THEN
        IF insideQuoted THEN
            IF i + 1 < Len(buf) /\ buf[i + 2] = ASCII_DQ
            THEN quoteScan(buf, i + 2, TRUE)
            ELSE quoteScan(buf, i + 1, FALSE)
        ELSE quoteScan(buf, i + 1, TRUE)
    ELSE quoteScan(buf, i + 1, insideQuoted)

\* a trim that removes a trailing LF only
trimDelimiterLFOnly(buf) ==
    LET end == Len(buf) IN
    IF end > 0 /\ buf[end] = ASCII_LF THEN SubSeq(buf, 1, end - 1) ELSE buf

\* the end of readRecord: the trailing CRLF, LF or CR is cut off
trimDelimiter(buf) ==
    LET end == Len(buf) IN
    IF end > 0 /\ buf[end] = ASCII_LF
    THEN IF end - 1 > 0 /\ buf[end - 1] = ASCII_CR
         THEN SubSeq(buf, 1, end - 2)
         ELSE SubSeq(buf, 1, end - 1)
    ELSE IF end > 0 /\ buf[end] = ASCII_CR THEN SubSeq(buf, 1, end - 1)
    ELSE buf

\* Reader.readRecord: chunks are appended to buf until one ends outside quotes
RECURSIVE readRecord(_, _, _, _, _, _)
readRecord(inp, pos, serr, size, buf, insideQuoted) ==
    LET rs == readSlice(inp, pos, serr, size)
        prevLen == Len(buf)
        buf1 == buf \o rs.chunk
        start == IF prevLen > 0 THEN prevLen - 1 ELSE prevLen
        inside == IF Len(rs.chunk) > 0 THEN quoteScan(buf1, start, insideQuoted)
                  ELSE insideQuoted
    IN IF rs.err = ErrNil
       THEN IF ~inside THEN [buf |-> trimDelimiter(buf1), err |-> ErrNil, pos |-> rs.pos]
            ELSE readRecord(inp, rs.pos, serr, size, buf1, inside)
       ELSE IF rs.err = ErrBufferFull
       THEN readRecord(inp, rs.pos, serr, size, buf1, inside)
       ELSE IF rs.err = EOF
       THEN IF Len(buf1) = 0 THEN [buf |-> buf1, err |-> EOF, pos |-> rs.pos]
            ELSE [buf |-> trimDelimiter(buf1), err |-> ErrNil, pos |-> rs.pos]
       ELSE [buf |-> buf1, err |-> rs.err, pos |-> rs.pos]

\* the states of the automaton of Read
STATE_START_FIELD == 0
STATE_UNQUOTED == 1
STATE_QUOTED == 2
STATE_QUOTE_IN_QUOTED == 3

\* the fast path of Read: buf holds no quote and is cut at every Comma (the
\* bounds are the 0-based starts and ends of the code)
RECURSIVE fastBounds(_, _, _, _, _)
fastBounds(buf, comma, i, start, bounds) ==
    IF i >= Len(buf) THEN Append(bounds, <<start, Len(buf)>>)
    ELSE IF buf[i + 1] = comma
    THEN fastBounds(buf, comma, i + 1, i + 1, Append(bounds, <<start, i>>))
    ELSE fastBounds(buf, comma, i + 1, start, bounds)

\* bytes.IndexByte(buf[i:], '"'), -1 if there is none
RECURSIVE IndexByteDQ(_, _, _)
IndexByteDQ(buf, i, k) ==
    IF i + k >= Len(buf) THEN -1
    ELSE IF buf[i + k + 1] = ASCII_DQ THEN k
    ELSE IndexByteDQ(buf, i, k + 1)

\* The automaton of Read from the 0-based index i on: a holds the locals
\* state, fieldStart and lastWasComma, the output bytes out and the bounds
\* (b.starts and b.ends; fieldCount is their number).
RECURSIVE automaton(_, _, _, _)
automaton(buf, comma, i, a0) ==
    IF i >= Len(buf) THEN a0
    ELSE
    LET ch == buf[i + 1]
        a == [a0 EXCEPT !.lastWasComma = FALSE]
        closeField == [a EXCEPT !.bounds = Append(@, <<a.fieldStart, Len(a.out)>>)]
    IN
    IF a.state = STATE_START_FIELD THEN
        IF ch = ASCII_DQ
        THEN automaton(buf, comma, i + 1,
                       [a EXCEPT !.fieldStart = Len(a.out), !.state = STATE_QUOTED])
        ELSE IF ch = comma
        THEN automaton(buf, comma, i + 1,
                       [a EXCEPT !.bounds = Append(@, <<Len(a.out), Len(a.out)>>),
                                 !.lastWasComma = TRUE, !.state = STATE_START_FIELD])
        ELSE automaton(buf, comma, i + 1,
                       [a EXCEPT !.fieldStart = Len(a.out), !.out = Append(@, ch),
                                 !.state = STATE_UNQUOTED])
    ELSE IF a.state = STATE_UNQUOTED THEN
        IF ch = comma
        THEN automaton(buf, comma, i + 1,
                       [closeField EXCEPT !.fieldStart = -1, !.lastWasComma = TRUE,
                                          !.state = STATE_START_FIELD])
        ELSE automaton(buf, comma, i + 1, [a EXCEPT !.out = Append(@, ch)])
    ELSE IF a.state = STATE_QUOTED THEN
        IF ch # ASCII_DQ THEN
            LET idx == IndexByteDQ(buf, i, 0) IN
            IF idx >= 0
            THEN automaton(buf, comma, i + idx + 1,
                           [a EXCEPT !.out = @ \o SubSeq(buf, i + 1, i + idx),
                                     !.state = STATE_QUOTE_IN_QUOTED])
            ELSE automaton(buf, comma, Len(buf),
                           [a EXCEPT !.out = @ \o SubSeq(buf, i + 1, Len(buf))])
        ELSE automaton(buf, comma, i + 1, [a EXCEPT !.state = STATE_QUOTE_IN_QUOTED])
    ELSE \* STATE_QUOTE_IN_QUOTED
        IF ch = ASCII_DQ
        THEN automaton(buf, comma, i + 1,
                       [a EXCEPT !.out = Append(@, ASCII_DQ), !.state = STATE_QUOTED])
        ELSE IF ch = comma
        THEN automaton(buf, comma, i + 1,
                       [closeField EXCEPT !.fieldStart = -1, !.lastWasComma = TRUE,
                                          !.state = STATE_START_FIELD])
        ELSE automaton(buf, comma, i + 1,
                       [closeField EXCEPT !.fieldStart = Len(a.out), !.out = Append(@, ch),
                                          !.state = STATE_UNQUOTED])

\* an end of Read that appends no last field
lastFieldDropped(a) == a.bounds

\* the bounds after the last byte: the open field, or the empty field after a
\* Comma that ends the line
lastField(a) ==
    IF a.fieldStart # -1
       /\ a.state \in {STATE_QUOTED, STATE_QUOTE_IN_QUOTED, STATE_UNQUOTED}
    THEN Append(a.bounds, <<a.fieldStart, Len(a.out)>>)
    ELSE IF a.lastWasComma THEN Append(a.bounds, <<Len(a.out), Len(a.out)>>)
    ELSE a.bounds

\* the fields cut out of str at the bounds
sliceFields(str, bounds) ==
    [k \in 1..Len(bounds) |-> SubSeq(str, bounds[k][1] + 1, bounds[k][2])]

\* a Read that returns a short record as it is
padFieldsNever(fields, fieldCount, FieldCount) == fields

\* the empty fields that Read appends to a record shorter than FieldCount
padFields(fields, fieldCount, FieldCount) ==
    IF fieldCount < FieldCount
    THEN fields \o [k \in 1..(FieldCount - fieldCount) |-> <<>>]
    ELSE fields

\* Reader.Read of the optimized automaton Reader
ReadOpt(rd, inp, serr) ==
    LET rr == readRecord(inp, rd.pos, serr, rd.size, <<>>, FALSE)
        rd1 == [rd EXCEPT !.pos = rr.pos]
    IN IF rr.err # ErrNil THEN [rd |-> rd1, res |-> Result(<<>>, rr.err)]
       ELSE LET noQuotes == \A k \in 1..Len(rr.buf) : rr.buf[k] # ASCII_DQ
                a == automaton(rr.buf, rd.Comma, 0,
                               [state |-> STATE_START_FIELD, lastWasComma |-> FALSE,
                                fieldStart |-> -1, out |-> <<>>, bounds |-> <<>>])
                fields == IF noQuotes
                          THEN sliceFields(rr.buf, fastBounds(rr.buf, rd.Comma, 0, 0, <<>>))
                          ELSE sliceFields(a.out, lastField(a))
                fieldCount == Len(fields)
                FieldCount == IF rd.FieldCount = 0 THEN fieldCount ELSE rd.FieldCount
            IN [rd |-> [rd1 EXCEPT !.FieldCount = FieldCount],
                res |-> Result(padFields(fields, fieldCount, FieldCount), ErrNil)]

\* NewReader of the optimized automaton Reader
NewOptReader == [Comma |-> ASCII_COMMA, FieldCount |-> 0, pos |-> 0, size |-> bufioSize]

\* the capacity of b.fields after NewReader
fieldsCap == 32

\* the memory after NewReader: b.fields is an empty slice of capacity fieldsCap
NewOptHeap == [NewHeap EXCEPT !.record = [arr |-> 1, len |-> 0, cap |-> fieldsCap]]

\* the capacity that append gives a full slice which must hold n elements
RECURSIVE grownCap(_, _)
grownCap(cap, n) == IF n <= cap THEN cap ELSE grownCap(2 * cap, n)

\* The memory after a Read that ended as out. Read cuts b.fields to length 0,
\* keeping its backing array, appends the strings of the record, which are
\* slices of a new string, and returns b.fields itself; append moves to a new
\* array only when the capacity is used up. A Read that ends with an error
\* returns a nil slice.
optHeapAfterRead(h, out) ==
    LET h1 == [h EXCEPT !.record.len = 0] IN
    IF out.res.err # ErrNil THEN [h1 EXCEPT !.returned = Append(@, NilSlice)]
    ELSE LET n == Len(out.res.rec)
             strs == [k \in 1..n |-> CopyOf(Len(h.returned) + 1, k)]
             cap == h.record.cap
             h2 == IF n <= cap
                   THEN [h1 EXCEPT !.arrays[h.record.arr] =
                                       strs \o SubSeq(@, n + 1, Len(@)),
                                   !.record.len = n]
                   ELSE [h1 EXCEPT !.arrays =
                                       Append([@ EXCEPT ![h.record.arr] = SubSeq(strs, 1, cap)],
                                              strs),
                                   !.record = [arr |-> Len(h.arrays) + 1, len |-> n,
                                               cap |-> grownCap(cap, n)]]
         IN [h2 EXCEPT !.returned = Append(@, h2.record)]

\* ------------------------------- src/unnamed/part_006: the automaton Reader

\* Reader.readLine: bufio.Reader.ReadLine until isPrefix is false (no line of
\* the model fills the 4096 bytes of the bufio.Reader), the bytes appended to
\* b.buf; the error of ReadLine, io.EOF included, is the error returned.
autoReadLine(inp, pos, serr) ==
    IF pos >= Len(inp) THEN [buf |-> <<>>, err |-> serr, pos |-> pos]
    ELSE LET nl == IndexLF(inp, pos + 1) IN
         IF nl = 0 THEN [buf |-> SubSeq(inp, pos + 1, Len(inp)), err |-> ErrNil,
                         pos |-> Len(inp)]
         ELSE LET drop == IF nl - 1 > pos /\ inp[nl - 1] = ASCII_CR THEN 2 ELSE 1
              IN [buf |-> SubSeq(inp, pos + 1, nl - drop), err |-> ErrNil, pos |-> nl]

\* a byte after a closing quote that is taken as one more byte of the field
quotedFieldGoesOn(dst, field, ch) == [dst |-> dst, field |-> Append(field, ch)]

\* state QUOTE_IN_QUOTED, a byte that is neither quote nor Comma: the quoted
\* field is appended to dst and the byte begins a new field
quotedFieldClosedBy(dst, field, ch) == [dst |-> Append(dst, field), field |-> <<ch>>]

\* The loop of Read over b.buf from the 0-based index i on, with the locals
\* state, field and dst (fieldCount is the length of dst).
RECURSIVE autoLoop(_, _, _, _, _, _)
autoLoop(buf, comma, i, state, field, dst) ==
    IF i >= Len(buf) THEN [state |-> state, field |-> field, dst |-> dst]
    ELSE
    LET ch == buf[i + 1] IN
    IF ch = ASCII_CR \/ ch = ASCII_LF THEN autoLoop(buf, comma, i + 1, state, field, dst)
    ELSE IF state = STATE_START_FIELD THEN
        IF ch = ASCII_DQ THEN autoLoop(buf, comma, i + 1, STATE_QUOTED, field, dst)
        ELSE IF ch = comma
        THEN autoLoop(buf, comma, i + 1, STATE_START_FIELD, <<>>, Append(dst, <<>>))
        ELSE autoLoop(buf, comma, i + 1, STATE_UNQUOTED, Append(field, ch), dst)
    ELSE IF state = STATE_UNQUOTED THEN
        IF ch = comma
        THEN autoLoop(buf, comma, i + 1, STATE_START_FIELD, <<>>, Append(dst, field))
        ELSE autoLoop(buf, comma, i + 1, STATE_UNQUOTED, Append(field, ch), dst)
    ELSE IF state = STATE_QUOTED THEN
        IF ch = ASCII_DQ
        THEN autoLoop(buf, comma, i + 1, STATE_QUOTE_IN_QUOTED, field, dst)
        ELSE autoLoop(buf, comma, i + 1, STATE_QUOTED, Append(field, ch), dst)
    ELSE \* STATE_QUOTE_IN_QUOTED
        IF ch = ASCII_DQ
        THEN autoLoop(buf, comma, i + 1, STATE_QUOTED, Append(field, ASCII_DQ), dst)
        ELSE IF ch = comma
        THEN autoLoop(buf, comma, i + 1, STATE_START_FIELD, <<>>, Append(dst, field))
        ELSE LET c == quotedFieldClosedBy(dst, field, ch)
             IN autoLoop(buf, comma, i + 1, STATE_UNQUOTED, c.field, c.dst)

\* a last field that is appended only when it has a byte
autoLastFieldNonEmpty(a) == IF Len(a.field) > 0 THEN Append(a.dst, a.field) ELSE a.dst

\* the last field of the line: an open quoted field, an unquoted field with a
\* byte, or the empty field at the start of a field
autoLastField(a) ==
    IF a.state = STATE_QUOTED \/ a.state = STATE_QUOTE_IN_QUOTED
    THEN Append(a.dst, a.field)
    ELSE IF Len(a.field) > 0 \/ a.state = STATE_START_FIELD
    THEN Append(a.dst, a.field)
    ELSE a.dst

\* Reader.Read of the automaton Reader
ReadAuto(rd, inp, serr) ==
    LET rl == autoReadLine(inp, rd.pos, serr)
        rd1 == [rd EXCEPT !.pos = rl.pos]
    IN IF rl.err # ErrNil THEN [rd |-> rd1, res |-> Result(<<>>, rl.err)]
       ELSE LET a == autoLoop(rl.buf, rd.Comma, 0, STATE_START_FIELD, <<>>, <<>>)
                dst == autoLastField(a)
                fieldCount == Len(dst)
                FieldCount == IF rd.FieldCount = 0 THEN fieldCount ELSE rd.FieldCount
            IN [rd |-> [rd1 EXCEPT !.FieldCount = FieldCount],
                res |-> Result(IF fieldCount < FieldCount
                               THEN dst \o [k \in 1..(FieldCount - fieldCount) |-> <<>>]
                               ELSE dst,
                               ErrNil)]

\* NewReader of the automaton Reader
NewAutoReader == [Comma |-> ASCII_COMMA, FieldCount |-> 0, pos |-> 0]

\* ------------------------------------------------------------ the program

\* the Readers
CSVC == "csvc.go"
PARSE == "ParseError Reader"
BYTES == "byte Reader"
FIELDBUF == "fieldBuf Reader"
OPT == "optimized automaton Reader"

\* the value of all before ReadAll is called
NotCalled == [records |-> <<>>, err |-> "not called"]

\* the exported fields as NewReader leaves them
DefaultOpts ==
    [Comma |-> defaultDelimiter, Comment |-> defaultComment, FieldsPerRecord |-> 0]

\* the configurations of the callers: the tests change one exported field of
\* the new Reader, the last configuration changes them all
Options ==
    {DefaultOpts,
     [DefaultOpts EXCEPT !.Comment = NoComment],
     [DefaultOpts EXCEPT !.FieldsPerRecord = -1],
     [DefaultOpts EXCEPT !.FieldsPerRecord = 2],
     [DefaultOpts EXCEPT !.Comma = SP],
     [Comma |-> SP, Comment |-> NoComment, FieldsPerRecord |-> -1]}

\* the bytes of the inputs of the Readers of part_007
AlphabetRFC == {"a", ASCII_COMMA, ASCII_DQ, ASCII_LF, ASCII_CR}

\* the source as the Readers see it
Source == [input |-> input, err |-> srcErr, chunk |-> srcChunk, eager |-> srcEager]

\* a bufio.Reader hides how the source cuts its bytes
InitBufio ==
    /\ srcErr \in {EOF, ErrIO}
    /\ srcChunk = MaxChunk
    /\ srcEager = FALSE
    /\ hist = <<>>

InitCsvc ==
    /\ impl = CSVC
    /\ input \in Strings(Alphabet, MaxLen)
    /\ InitBufio
    /\ opts \in Options
    /\ r = Configured(NewReader, opts)
    /\ pr = NewParseReader(FALSE)
    /\ br = NewByteReader
    /\ ar = NewOptReader
    /\ all = NotCalled
    /\ heap = NewHeap
    /\ pc = Idle

InitParse ==
    /\ impl = PARSE
    /\ input \in Strings(AlphabetRFC, MaxLenRFC)
    /\ srcErr \in {EOF, ErrIO}
    /\ srcChunk \in 1..MaxChunk
    /\ srcEager \in BOOLEAN
    /\ hist = <<>>
    /\ opts = DefaultOpts
    /\ r = NewReader
    /\ pr = NewParseReader(FALSE)
    /\ br = NewByteReader
    /\ ar = NewOptReader
    /\ all = NotCalled
    /\ heap = NewHeap
    /\ pc = Idle

InitBytes ==
    /\ impl \in {BYTES, FIELDBUF}
    /\ input \in Strings(AlphabetRFC, MaxLenRFC)
    /\ InitBufio
    /\ opts = DefaultOpts
    /\ r = NewReader
    /\ pr = NewParseReader(FALSE)
    /\ br = NewByteReader
    /\ ar = NewOptReader
    /\ all = NotCalled
    /\ heap = NewHeap
    /\ pc = Idle

\* one call of Reader.Read of csvc.go
DoRead ==
    /\ impl = CSVC
    /\ Len(hist) < MaxReads
    /\ LET out == Read(r, input, srcErr) IN
        /\ r' = out.rd
        /\ hist' = Append(hist, out.res)
    /\ UNCHANGED <<impl, input, srcErr, srcChunk, srcEager, opts, pr, br, ar, all, heap, pc>>

\* one call of Reader.Read of the ParseError-reporting Reader
DoReadParse ==
    /\ impl = PARSE
    /\ Len(hist) < MaxReads
    /\ LET out == ReadParse(pr, Source) IN
        /\ pr' = out.st
        /\ hist' = Append(hist, out.res)
        /\ heap' = heapAfterRead(heap, pr, out)
    /\ UNCHANGED <<impl, input, srcErr, srcChunk, srcEager, opts, r, br, ar, all, pc>>

\* one call of Reader.Read of the byte-at-a-time Reader
DoReadBytes ==
    /\ impl = BYTES
    /\ Len(hist) < MaxReads
    /\ LET out == ReadBytes(br, input, srcErr) IN
        /\ br' = out.rd
        /\ hist' = Append(hist, out.res)
    /\ UNCHANGED <<impl, input, srcErr, srcChunk, srcEager, opts, r, pr, ar, all, heap, pc>>

\* one call of Reader.Read of the byte-at-a-time Reader with fieldBuf
DoReadFieldBuf ==
    /\ impl = FIELDBUF
    /\ Len(hist) < MaxReads
    /\ LET out == ReadFieldBuf(br, input, srcErr) IN
        /\ br' = out.rd
        /\ hist' = Append(hist, out.res)
    /\ UNCHANGED <<impl, input, srcErr, srcChunk, srcEager, opts, r, pr, ar, all, heap, pc>>

InitOpt ==
    /\ impl = OPT
    /\ input \in Strings(AlphabetRFC, MaxLenRFC)
    /\ InitBufio
    /\ opts = DefaultOpts
    /\ r = NewReader
    /\ pr = NewParseReader(FALSE)
    /\ br = NewByteReader
    /\ ar = NewOptReader
    /\ all = NotCalled
    /\ heap = NewOptHeap
    /\ pc = Idle

\* one call of Reader.Read of the optimized automaton Reader
DoReadOpt ==
    /\ impl = OPT
    /\ Len(hist) < MaxReads
    /\ LET out == ReadOpt(ar, input, srcErr) IN
        /\ ar' = out.rd
        /\ hist' = Append(hist, out.res)
        /\ heap' = optHeapAfterRead(heap, out)
    /\ UNCHANGED <<impl, input, srcErr, srcChunk, srcEager, opts, r, pr, br, all, pc>>

\* the configurations of the callers of ReadAll: those that decide whether a
\* Read fails with ErrFieldCount
OptionsReadAll ==
    {DefaultOpts,
     [DefaultOpts EXCEPT !.FieldsPerRecord = -1],
     [DefaultOpts EXCEPT !.FieldsPerRecord = 2]}

InitReadAll == InitCsvc /\ opts \in OptionsReadAll

\* the one call of Reader.ReadAll of csvc.go, after the Read calls in hist
DoReadAll ==
    /\ impl = CSVC
    /\ all = NotCalled
    /\ LET out == ReadAll(r, input, srcErr, <<>>) IN
        /\ r' = out.rd
        /\ all' = out.res
    /\ UNCHANGED <<impl, input, srcErr, srcChunk, srcEager, opts, pr, br, ar, hist, heap, pc>>

\* Read calls of the Reader of csvc.go and then one ReadAll call
NextReadAll == (all = NotCalled /\ DoRead) \/ DoReadAll

SpecReadAll == InitReadAll /\ [][NextReadAll]_vars

\* the configurations that decide what a comment line is: the comment
\* character of NewReader, none, and a white space delimiter
OptionsComment ==
    {DefaultOpts,
     [DefaultOpts EXCEPT !.Comment = NoComment],
     [DefaultOpts EXCEPT !.Comma = SP]}

InitComments == InitCsvc /\ opts \in OptionsComment

\* the Reader of csvc.go alone
NextCsvc == DoRead

SpecCsvc == InitCsvc /\ [][NextCsvc]_vars

\* the Reader of csvc.go in the configurations of OptionsComment
SpecComments == InitComments /\ [][NextCsvc]_vars

\* the Reader of csvc.go in the configurations of OptionsReadAll, which
\* decide whether a Read fails with ErrFieldCount
SpecFieldCount == InitReadAll /\ [][NextCsvc]_vars

\* the ParseError-reporting Reader alone
NextParse == DoReadParse

SpecParse == InitParse /\ [][NextParse]_vars

\* the ParseError-reporting Reader on a source that delivers one byte or
\* MaxChunk bytes per Read and reports its error after the last byte
InitParseErrors == InitParse /\ srcChunk \in {1, MaxChunk} /\ srcEager = FALSE

SpecParseErrors == InitParseErrors /\ [][NextParse]_vars

\* the ParseError-reporting Reader with the memory of its records in view:
\* the inputs of the other specifications and records of 1, recordCap and
\* recordCap + 1 fields
WideLine(n, f) ==
    [k \in 1..(n * (Len(f) + 1)) |->
        IF k % (Len(f) + 1) = 0 THEN (IF k = n * (Len(f) + 1) THEN ASCII_LF ELSE ASCII_COMMA)
        ELSE f[k % (Len(f) + 1)]]

WideLines == {WideLine(n, f) : n \in {1, recordCap, recordCap + 1}, f \in {<<>>, <<"a">>}}

RECURSIVE Flatten(_)
Flatten(ls) == IF ls = <<>> THEN <<>> ELSE Head(ls) \o Flatten(Tail(ls))

WideInputs == {Flatten(ls) : ls \in UNION {[1..k -> WideLines] : k \in 1..MaxRecords}}

InitMemory(reuse) ==
    /\ impl = PARSE
    /\ input \in Strings(AlphabetRFC, MaxLenRFC) \cup WideInputs
    /\ InitBufio
    /\ opts = DefaultOpts
    /\ r = NewReader
    /\ pr = NewParseReader(reuse)
    /\ br = NewByteReader
    /\ ar = NewOptReader
    /\ all = NotCalled
    /\ heap = NewHeap
    /\ pc = Idle

\* ReuseRecord as NewReader leaves it
SpecCopy == InitMemory(FALSE) /\ [][NextParse]_vars

\* ReuseRecord set by the caller before the first Read
SpecReuse == InitMemory(TRUE) /\ [][NextParse]_vars

\* the byte-at-a-time Readers alone
NextBytes == DoReadBytes \/ DoReadFieldBuf

SpecBytes == InitBytes /\ [][NextBytes]_vars

\* the optimized automaton Reader alone
NextOpt == DoReadOpt

SpecOpt == InitOpt /\ [][NextOpt]_vars

\* the optimized automaton Reader over a bufio.Reader of a small size, so that
\* lines of the inputs fill the buffer
MaxBufSize == 2

InitOptSized ==
    /\ impl = OPT
    /\ input \in Strings(AlphabetRFC, MaxLenRFC)
    /\ InitBufio
    /\ opts = DefaultOpts
    /\ r = NewReader
    /\ pr = NewParseReader(FALSE)
    /\ br = NewByteReader
    /\ ar \in {[NewOptReader EXCEPT !.size = n] : n \in 1..MaxBufSize}
    /\ all = NotCalled
    /\ heap = NewOptHeap
    /\ pc = Idle

SpecOptSized == InitOptSized /\ [][NextOpt]_vars

\* the automaton Reader of part_006 alone
AUTO == "automaton Reader"

InitAuto ==
    /\ impl = AUTO
    /\ input \in Strings(AlphabetRFC, MaxLenRFC)
    /\ InitBufio
    /\ opts = DefaultOpts
    /\ r = NewReader
    /\ pr = NewParseReader(FALSE)
    /\ br = NewByteReader
    /\ ar = NewAutoReader
    /\ all = NotCalled
    /\ heap = NewHeap
    /\ pc = Idle

DoReadAuto ==
    /\ impl = AUTO
    /\ Len(hist) < MaxReads
    /\ LET out == ReadAuto(ar, input, srcErr) IN
        /\ ar' = out.rd
        /\ hist' = Append(hist, out.res)
    /\ UNCHANGED <<impl, input, srcErr, srcChunk, srcEager, opts, r, pr, br, all, heap, pc>>

NextAuto == DoReadAuto

SpecAuto == InitAuto /\ [][NextAuto]_vars

\* the two automaton Readers
NextAutomata == DoReadAuto \/ DoReadOpt

SpecAutomata == (InitAuto \/ InitOpt) /\ [][NextAutomata]_vars

\* the Reader of csvc.go and the optimized automaton Reader
NextRecords == DoRead \/ DoReadOpt

SpecRecords == (InitReadAll \/ InitOpt) /\ [][NextRecords]_vars

\* ------------------------------------------------ the Read calls step by step

\* the longest input and the most Reads of the source in a row that return
\* no byte and no error
MaxLenSteps == 2
MaxStalls == 1

InitSteps ==
    /\ \/ InitCsvc /\ opts = DefaultOpts /\ input \in Strings(Alphabet, MaxLenSteps)
       \/ InitParse /\ srcChunk \in {1, MaxChunk} /\ srcEager = FALSE
                    /\ input \in Strings(AlphabetRFC, MaxLenSteps)

\* csvc.go: the caller calls Read
StepCall ==
    /\ impl = CSVC
    /\ pc = Idle
    /\ Len(hist) < MaxReads
    /\ pc' = [Idle EXCEPT !.at = "Read"]
    /\ UNCHANGED <<impl, input, srcErr, srcChunk, srcEager, opts, r, pr, br, ar, all, hist, heap>>

\* csvc.go: one activation of Read: it returns, and with it every activation
\* that waits for it, or it has skipped a line and calls Read
StepRead ==
    /\ impl = CSVC
    /\ pc.at = "Read"
    /\ \E l \in {readLine(input, r.pos, srcErr)} :
       \E line \in {TrimSpace(l.line)} :
       \E o \in {afterReadLine(r, l, line)} :
        /\ r' = o.rd
        /\ hist' = IF o.skip THEN hist ELSE Append(hist, o.res)
        /\ pc' = IF o.skip THEN pc ELSE Idle
    /\ UNCHANGED <<impl, input, srcErr, srcChunk, srcEager, opts, pr, br, ar, all, heap>>

\* the loop of Read ends the call as s says, or goes on with readByte
afterPass(s) ==
    IF s.done
    THEN /\ pr' = [s.st EXCEPT !.inQuotes = FALSE, !.sawQuotedField = FALSE,
                                !.column = 1, !.fieldStart = 0]
         /\ hist' = Append(hist, s.res)
         /\ heap' = heapAfterRead(heap, pr, Return(s.st, s.res))
         /\ pc' = Idle
    ELSE /\ pr' = s.st
         /\ pc' = [Idle EXCEPT !.at = "readByte"]
         /\ UNCHANGED <<hist, heap>>

\* the ParseError Reader: the caller calls Read, which returns at once when
\* the stream has ended and else enters its loop
StepCallParse ==
    /\ impl = PARSE
    /\ pc = Idle
    /\ Len(hist) < MaxReads
    /\ IF isFinished(pr)
       THEN /\ hist' = Append(hist, Result(<<>>, EOF))
            /\ heap' = heapAfterRead(heap, pr, Return(pr, Result(<<>>, EOF)))
            /\ UNCHANGED <<pr, pc>>
       ELSE /\ pr' = [pr EXCEPT !.dataBuf = <<>>, !.fieldBounds = <<>>,
                                !.inQuotes = FALSE, !.sawQuotedField = FALSE,
                                !.column = 1, !.fieldStart = 0]
            /\ pc' = [Idle EXCEPT !.at = "readByte"]
            /\ UNCHANGED <<hist, heap>>
    /\ UNCHANGED <<impl, input, srcErr, srcChunk, srcEager, opts, r, br, ar, all>>

\* readByte or peekByte has to read the source
mustRefill(st) == st.bufPos >= st.bufLen /\ st.bufErr = ErrNil

\* the Read of the source returns a byte or an error
delivers(st, src) == LET rd == srcRead(src, st.srcPos) IN rd.n > 0 \/ rd.err # ErrNil

\* readByte or peekByte: the source returned no byte and no error, the refill
\* loop goes round
StepStall ==
    /\ impl = PARSE
    /\ pc.at \in {"readByte", "peekByte"}
    /\ mustRefill(pr)
    /\ pc.stalls < MaxStalls
    /\ pr' = called(pr)
    /\ pc' = [pc EXCEPT !.stalls = @ + 1]
    /\ UNCHANGED <<impl, input, srcErr, srcChunk, srcEager, opts, r, br, ar, all, hist, heap>>

\* the loop of Read: readByte returns, and the byte is handled unless
\* peekByte is called for it
StepReadByte ==
    /\ impl = PARSE
    /\ pc.at = "readByte"
    /\ mustRefill(pr) => delivers(pr, Source)
    /\ \E rb \in {readByte(pr, Source)} :
       LET comma == IF pr.Comma = NUL THEN ASCII_COMMA ELSE pr.Comma
           quote == IF pr.Quote = NUL THEN ASCII_DQ ELSE pr.Quote
       IN IF rb.err # ErrNil
          THEN \E s \in {onReadError(rb.st, rb.err)} : afterPass(s)
          ELSE IF needsPeek(rb.st, rb.b, comma, quote)
          THEN /\ pr' = rb.st
               /\ pc' = [at |-> "peekByte", b |-> rb.b, stalls |-> 0]
               /\ UNCHANGED <<hist, heap>>
          ELSE \E s \in {afterByte(rb.st, rb.b, comma, quote)} : afterPass(s)
    /\ UNCHANGED <<impl, input, srcErr, srcChunk, srcEager, opts, r, br, ar, all>>

\* the loop of Read: peekByte returns and the byte read before it is handled
StepPeekByte ==
    /\ impl = PARSE
    /\ pc.at = "peekByte"
    /\ mustRefill(pr) => delivers(pr, Source)
    /\ \E pk \in {peekByte(pr, Source)} :
       \E s \in {afterPeek(pc.b, pk, IF pr.Quote = NUL THEN ASCII_DQ ELSE pr.Quote)} :
           afterPass(s)
    /\ UNCHANGED <<impl, input, srcErr, srcChunk, srcEager, opts, r, br, ar, all>>

\* the steps of a call that has begun
Running == StepRead \/ StepStall \/ StepReadByte \/ StepPeekByte

NextSteps == StepCall \/ StepCallParse \/ Running

\* a call that has begun keeps running; the caller need not call again
SpecSteps == InitSteps /\ [][NextSteps]_vars /\ WF_vars(Running)

\* any of the Readers, on a source that ends with io.EOF
Init == (InitCsvc \/ InitParse \/ InitBytes \/ InitOpt) /\ srcErr = EOF

Next == DoRead \/ DoReadParse \/ DoReadBytes \/ DoReadFieldBuf \/ DoReadOpt

Spec == Init /\ [][Next]_vars

\* ------------------------------------------------------------ properties

\* the physical lines of s: the bytes before each LF, and the bytes after the
\* last LF when there are any
RECURSIVE PhysLines(_)
PhysLines(s) ==
    IF s = <<>> THEN <<>>
    ELSE LET nl == IndexLF(s, 1) IN
         IF nl = 0 THEN <<s>>
         ELSE <<SubSeq(s, 1, nl - 1)>> \o PhysLines(SubSeq(s, nl + 1, Len(s)))

\* every line of the input ends with a line terminator
Terminated(s) == s = <<>> \/ s[Len(s)] = ASCII_LF

\* a line without the CR of its CRLF terminator
RawLine(l) == IF l # <<>> /\ l[Len(l)] = ASCII_CR THEN SubSeq(l, 1, Len(l) - 1) ELSE l

\* a line that holds a record: not blank, and its first byte that is not
\* white space is not the comment character
IsRecordLine(l, comment) ==
    \E i \in 1..Len(l) :
        /\ ~IsSpace(l[i])
        /\ \A j \in 1..(i - 1) : IsSpace(l[j])
        /\ comment # NoComment => l[i] # comment

RECURSIVE RecordLinesOf(_, _)
RecordLinesOf(ls, comment) ==
    IF ls = <<>> THEN <<>>
    ELSE IF IsRecordLine(Head(ls), comment)
         THEN <<Head(ls)>> \o RecordLinesOf(Tail(ls), comment)
         ELSE RecordLinesOf(Tail(ls), comment)

\* the lines of the input that hold records, in input order
RecordLines == RecordLinesOf(PhysLines(input), opts.Comment)

\* the record parsed from a line
RecordOf(l) == parseLine(TrimSpace(l), opts.Comma)

CountAsked(i) ==
    IF opts.FieldsPerRecord > 0 THEN opts.FieldsPerRecord
    ELSE IF opts.FieldsPerRecord = 0 /\ i > 1 THEN Len(RecordOf(RecordLines[1]))
    ELSE 0

CountAccepted(i) ==
    CountAsked(i) > 0 => Len(RecordOf(RecordLines[i])) = CountAsked(i)

LastRecordUnterminated ==
    /\ ~Terminated(input)
    /\ LET ls == PhysLines(input) IN IsRecordLine(ls[Len(ls)], opts.Comment)

\* ---- the reference grammar (RFC 4180) of the Readers of part_007

\* the position after the quoted text that opens at position p (s[p] is the
\* opening quote): 0 if the quote never closes
RECURSIVE QuotedEnd(_, _)
QuotedEnd(s, i) ==
    IF i > Len(s) THEN 0
    ELSE IF s[i] # ASCII_DQ THEN QuotedEnd(s, i + 1)
    ELSE IF i < Len(s) /\ s[i + 1] = ASCII_DQ THEN QuotedEnd(s, i + 2)
    ELSE i + 1

\* the position after the unquoted text that starts at position i
RECURSIVE UnquotedEnd(_, _)
UnquotedEnd(s, i) ==
    IF i > Len(s) \/ s[i] \in {ASCII_COMMA, ASCII_LF, ASCII_CR, ASCII_DQ} THEN i
    ELSE UnquotedEnd(s, i + 1)

\* the text between two quotes with every doubled quote read as one quote
RECURSIVE Decode(_)
Decode(s) ==
    IF s = <<>> THEN <<>>
    ELSE IF s[1] = ASCII_DQ THEN <<ASCII_DQ>> \o Decode(SubSeq(s, 3, Len(s)))
    ELSE <<s[1]>> \o Decode(Tail(s))

\* a text with every quote doubled
RECURSIVE Escape(_)
Escape(v) ==
    IF v = <<>> THEN <<>>
    ELSE IF v[1] = ASCII_DQ THEN <<ASCII_DQ, ASCII_DQ>> \o Escape(Tail(v))
    ELSE <<v[1]>> \o Escape(Tail(v))

\* a field serialized per the quoting convention
Serialize(v) == <<ASCII_DQ>> \o Escape(v) \o <<ASCII_DQ>>

\* The records of a well-formed input, read from position i on: recs are the
\* finished records, rec the fields of the open record. ok is FALSE when the
\* input is not well formed: a quote inside an unquoted field, text after a
\* closing quote, or a quote that never closes.
RECURSIVE RefParse(_, _, _, _)
RefParse(s, i, recs, rec) ==
    LET quoted == i <= Len(s) /\ s[i] = ASCII_DQ
        e == IF quoted THEN QuotedEnd(s, i + 1) ELSE UnquotedEnd(s, i)
        field == IF quoted THEN Decode(SubSeq(s, i + 1, e - 2)) ELSE SubSeq(s, i, e - 1)
        done == Append(rec, field)
    IN IF e = 0 THEN [ok |-> FALSE, recs |-> recs]
       ELSE IF e > Len(s)
       THEN [ok |-> TRUE,
             recs |-> IF rec = <<>> /\ ~quoted /\ field = <<>> THEN recs
                      ELSE Append(recs, done)]
       ELSE IF s[e] = ASCII_COMMA THEN RefParse(s, e + 1, recs, done)
       ELSE IF s[e] = ASCII_LF THEN RefParse(s, e + 1, Append(recs, done), <<>>)
       ELSE IF s[e] = ASCII_CR
       THEN RefParse(s, IF e < Len(s) /\ s[e + 1] = ASCII_LF THEN e + 2 ELSE e + 1,
                     Append(recs, done), <<>>)
       ELSE [ok |-> FALSE, recs |-> recs]

\* the records of the input by the reference grammar
RefRecords == RefParse(input, 1, <<>>, <<>>)

\* the input ends inside a record: its last byte is no line terminator
EndsInsideRecord == input # <<>> /\ input[Len(input)] \notin {ASCII_LF, ASCII_CR}

C3_EmptyInputIsEOF ==
    (input = <<>> /\ srcErr = EOF) =>
        \A i \in 1..Len(hist) : hist[i] = Result(<<>>, EOF)

\* the Reader of csvc.go was called twice on the empty input
C3_Witness ==
    impl = CSVC /\ input = <<>> /\ srcErr = EOF /\ Len(hist) = 2 /\ hist[1].err = EOF

\* C4: no Read of the byte-at-a-time Readers returns a record together with
\* an error.
C4_RecordOrErrorNeverBoth ==
    impl \in {BYTES, FIELDBUF} =>
        \A i \in 1..Len(hist) : hist[i].err # ErrNil => hist[i].rec = <<>>

\* ---- the fields of one line, by the words of the specification

\* s split at every d
RECURSIVE SplitOn(_, _, _)
SplitOn(s, d, field) ==
    IF s = <<>> THEN <<field>>
    ELSE IF Head(s) = d THEN <<field>> \o SplitOn(Tail(s), d, <<>>)
    ELSE SplitOn(Tail(s), d, Append(field, Head(s)))

\* s split at every d outside quotes: a quote opens or closes a quoted text
RECURSIVE SplitOutsideQuotes(_, _, _, _)
SplitOutsideQuotes(s, d, field, inQ) ==
    IF s = <<>> THEN <<field>>
    ELSE IF Head(s) = ASCII_DQ
    THEN SplitOutsideQuotes(Tail(s), d, Append(field, Head(s)), ~inQ)
    ELSE IF Head(s) = d /\ ~inQ THEN <<field>> \o SplitOutsideQuotes(Tail(s), d, <<>>, inQ)
    ELSE SplitOutsideQuotes(Tail(s), d, Append(field, Head(s)), inQ)

\* the number of bytes c in s
RECURSIVE Count(_, _)
Count(s, c) ==
    IF s = <<>> THEN 0 ELSE (IF Head(s) = c THEN 1 ELSE 0) + Count(Tail(s), c)

\* the number of bytes c in the fields of a record
RECURSIVE CountIn(_, _)
CountIn(rec, c) == IF rec = <<>> THEN 0 ELSE Count(Head(rec), c) + CountIn(Tail(rec), c)

\* every quote of s is one of a pair of adjacent quotes
RECURSIVE QuotesDoubled(_)
QuotesDoubled(s) ==
    IF s = <<>> THEN TRUE
    ELSE IF s[1] = ASCII_DQ
    THEN Len(s) >= 2 /\ s[2] = ASCII_DQ /\ QuotesDoubled(SubSeq(s, 3, Len(s)))
    ELSE QuotesDoubled(Tail(s))

\* the text between the first and the last byte of f
Inner(f) == SubSeq(f, 2, Len(f) - 1)

\* a quoted field: it starts and ends with a quote and its inner quotes are
\* all doubled
IsQuotedField(f) ==
    Len(f) >= 2 /\ f[1] = ASCII_DQ /\ f[Len(f)] = ASCII_DQ /\ QuotesDoubled(Inner(f))

\* the record lines that the Reads made so far have answered with a record
ReadRecordLines ==
    {i \in 1..Len(RecordLines) : i <= Len(hist) /\ hist[i].err = ErrNil}

\* a line with no white space to trim at either end
Untrimmed(l) == TrimSpace(l) = l

\* C5: the record of a line without quote and without CR is the line split
\* at the delimiter (lines with nothing to trim, terminated input).
C5_RecordIsLineSplitAtDelimiter ==
    (impl = CSVC /\ Terminated(input)) =>
        \A i \in ReadRecordLines :
            LET l == RawLine(RecordLines[i]) IN
            (Untrimmed(l) /\ Count(l, ASCII_DQ) = 0 /\ Count(l, ASCII_CR) = 0) =>
                hist[i].rec = SplitOn(l, opts.Comma, <<>>)

\* C6: a line with k delimiters outside quotes yields k + 1 fields (lines with
\* nothing to trim, terminated input).
C6_FieldsAreDelimitersPlusOne ==
    (impl = CSVC /\ Terminated(input)) =>
        \A i \in ReadRecordLines :
            LET l == RawLine(RecordLines[i]) IN
            Untrimmed(l) =>
                Len(hist[i].rec) = Len(SplitOutsideQuotes(l, opts.Comma, <<>>, FALSE))

\* C7: every space of a line is in the fields of its record, when the space
\* is not the delimiter.
C7_SpacesAreKept ==
    (impl = CSVC /\ Terminated(input) /\ opts.Comma # SP) =>
        \A i \in ReadRecordLines :
            CountIn(hist[i].rec, SP) = Count(RecordLines[i], SP)

\* C8: in the record of a line, the value of a quoted field is its inner text
\* with every doubled quote read as one quote, at the position the field has
\* among the fields that the delimiters outside quotes separate. The line is
\* the physical line as Read parses it, without the white space at its ends.
C8_QuotedFieldIsUnquoted ==
    impl = CSVC =>
        \A i \in ReadRecordLines :
            LET raw == SplitOutsideQuotes(TrimSpace(RecordLines[i]), opts.Comma, <<>>, FALSE)
            IN \A j \in 1..Len(raw) :
                IsQuotedField(raw[j]) =>
                    /\ j <= Len(hist[i].rec)
                    /\ hist[i].rec[j] = Decode(Inner(raw[j]))

\* a record was returned for a line with a quoted field that holds a doubled
\* quote, or one that holds the delimiter next to another field
C8_Witness ==
    /\ impl = CSVC
    /\ \E i \in ReadRecordLines :
        LET raw == SplitOutsideQuotes(TrimSpace(RecordLines[i]), opts.Comma, <<>>, FALSE)
        IN \E j \in 1..Len(raw) :
            /\ IsQuotedField(raw[j])
            /\ Count(raw[j], ASCII_DQ) = 4
            /\ hist[i].rec[j] = <<ASCII_DQ>>

\* the input is one quoted field that holds a line feed and no quote,
\* followed by a line feed
OneMultilineField ==
    /\ Len(input) >= 4
    /\ input[1] = ASCII_DQ /\ input[Len(input) - 1] = ASCII_DQ
    /\ input[Len(input)] = ASCII_LF
    /\ Count(SubSeq(input, 2, Len(input) - 2), ASCII_DQ) = 0
    /\ Count(SubSeq(input, 2, Len(input) - 2), ASCII_LF) > 0

\* C9: a quoted field that holds a line feed is returned as one field of one
\* record with the line feed in it, and the next Read returns io.EOF.
C9_NewlineInQuotesStaysInField ==
    (impl = CSVC /\ OneMultilineField /\ srcErr = EOF /\ opts.FieldsPerRecord <= 0) =>
        /\ Len(hist) >= 1 => hist[1] = Result(<<SubSeq(input, 2, Len(input) - 2)>>, ErrNil)
        /\ Len(hist) >= 2 => hist[2] = Result(<<>>, EOF)

\* the input without the line terminator that ends it
Unterminated(s) ==
    IF Len(s) >= 2 /\ s[Len(s) - 1] = ASCII_CR /\ s[Len(s)] = ASCII_LF
    THEN SubSeq(s, 1, Len(s) - 2)
    ELSE SubSeq(s, 1, Len(s) - 1)

\* the input is Serialize(v) followed by LF, CRLF or CR
IsSerialized(v) ==
    \E term \in {<<ASCII_LF>>, <<ASCII_CR, ASCII_LF>>, <<ASCII_CR>>} :
        input = Serialize(v) \o term

\* C10: a field value serialized per the quoting convention and followed by a
\* line terminator is read back by the ParseError-reporting Reader as a record
\* of one field that equals the value.
C10_RoundTrip ==
    (impl = PARSE /\ srcErr = EOF /\ Len(input) >= 3) =>
        LET v == Decode(Inner(Unterminated(input))) IN
        (IsSerialized(v) /\ Len(hist) >= 1) => hist[1] = Result(<<v>>, ErrNil)

\* values that hold a quote, the delimiter, a line feed and a carriage return
\* were read back, from a source that delivers one byte at a time
C10_Witness ==
    /\ impl = PARSE /\ srcErr = EOF /\ srcChunk = 1 /\ Len(input) >= 3
    /\ Len(hist) = 1 /\ hist[1].err = ErrNil /\ Len(hist[1].rec) = 1
    /\ IsSerialized(hist[1].rec[1])
    /\ hist[1].rec[1] \in {<<ASCII_DQ>>, <<ASCII_COMMA, ASCII_LF>>}

\* ---- line endings of the optimized automaton Reader

\* the input ends with a line terminator
EndsWithTerminator == input # <<>> /\ input[Len(input)] \in {ASCII_LF, ASCII_CR}

\* s is one well-formed record: by the reference grammar it holds no line
\* terminator outside quotes
IsOneRecord(s) ==
    LET p == RefParse(s, 1, <<>>, <<>>) IN
    /\ p.ok
    /\ Len(p.recs) <= 1
    /\ s = <<>> \/ s[Len(s)] \notin {ASCII_LF, ASCII_CR}

\* what the first Read of a new optimized automaton Reader returns on the
\* record s followed by the line terminator term and the end of input
FirstOf(s, term) == ReadOpt(NewOptReader, s \o term, EOF).res

\* C11: for a well-formed record followed by LF, CRLF or CR and the end of
\* input, the first Read of the optimized automaton Reader returns the same
\* fields with a nil error whichever of the three terminators ends it, and
\* they are the fields of the record by the reference grammar, so that no byte
\* of the terminator is left in the last field.
C11_SameFieldsForEveryLineEnding ==
    (impl = OPT /\ srcErr = EOF /\ EndsWithTerminator
        /\ IsOneRecord(Unterminated(input)) /\ Len(hist) >= 1) =>
        LET rcd == Unterminated(input) IN
        /\ hist[1].err = ErrNil
        /\ hist[1] = FirstOf(rcd, <<ASCII_LF>>)
        /\ hist[1] = FirstOf(rcd, <<ASCII_CR, ASCII_LF>>)
        /\ hist[1] = FirstOf(rcd, <<ASCII_CR>>)
        /\ rcd # <<>> => hist[1].rec = RefParse(rcd, 1, <<>>, <<>>).recs[1]

\* a record of two fields, the second one quoted, was read from an input that
\* a bare CR ends
C11_Witness ==
    /\ impl = OPT /\ srcErr = EOF /\ Len(hist) = 1
    /\ input = <<"a", ASCII_COMMA, ASCII_DQ, ASCII_DQ, ASCII_CR>>
    /\ hist[1] = Result(<< <<"a">>, <<>> >>, ErrNil)

\* ---- CRLF in the ParseError-reporting Reader

\* outside quotes, from position i on, every CR of s is followed by an LF and
\* every LF follows a CR
RECURSIVE OnlyCRLF(_, _, _)
OnlyCRLF(s, i, inQ) ==
    IF i > Len(s) THEN TRUE
    ELSE IF s[i] = ASCII_DQ THEN OnlyCRLF(s, i + 1, ~inQ)
    ELSE IF inQ THEN OnlyCRLF(s, i + 1, inQ)
    ELSE IF s[i] = ASCII_CR
    THEN i < Len(s) /\ s[i + 1] = ASCII_LF /\ OnlyCRLF(s, i + 2, inQ)
    ELSE IF s[i] = ASCII_LF THEN FALSE
    ELSE OnlyCRLF(s, i + 1, inQ)

\* the input is well-formed records that a CRLF ends, each of them
CRLFTerminated ==
    /\ Len(input) >= 2
    /\ input[Len(input) - 1] = ASCII_CR /\ input[Len(input)] = ASCII_LF
    /\ OnlyCRLF(input, 1, FALSE)
    /\ RefRecords.ok

\* C12: on an input of n CRLF-terminated records the ParseError-reporting
\* Reader returns the n records in order, one per Read and each with a nil
\* error, and io.EOF with no record from the Read after the n-th on, however
\* the source cuts the bytes into Reads.
C12_CRLFIsOneTerminator ==
    (impl = PARSE /\ srcErr = EOF /\ CRLFTerminated) =>
        LET recs == RefRecords.recs IN
        \A i \in 1..Len(hist) :
            hist[i] = IF i <= Len(recs)
                      THEN Result(recs[i], ErrNil)
                      ELSE Result(<<>>, EOF)

\* two CRLF-terminated records were read and then io.EOF, from a source that
\* delivers the CR and the LF in two Reads
C12_Witness ==
    /\ impl = PARSE /\ srcErr = EOF /\ srcChunk = 1 /\ CRLFTerminated
    /\ Len(RefRecords.recs) = 2
    /\ Len(hist) = 3
    /\ hist[1] = Result(<< <<"a">> >>, ErrNil)
    /\ hist[2].err = ErrNil
    /\ hist[3] = Result(<<>>, EOF)

\* ---- a bare CR in the optimized automaton Reader

\* outside quotes, from position i on, s holds a CR that a byte other than LF
\* follows
RECURSIVE HasBareCR(_, _, _)
HasBareCR(s, i, inQ) ==
    IF i >= Len(s) THEN FALSE
    ELSE IF s[i] = ASCII_DQ THEN HasBareCR(s, i + 1, ~inQ)
    ELSE IF ~inQ /\ s[i] = ASCII_CR /\ s[i + 1] # ASCII_LF THEN TRUE
    ELSE HasBareCR(s, i + 1, inQ)

\* the fields of a are the first fields of b
IsPrefix(a, b) == Len(a) <= Len(b) /\ SubSeq(b, 1, Len(a)) = a

\* C13: on a well-formed input with a bare CR outside quotes the optimized
\* automaton Reader ends the record at the CR: the first Read returns the
\* fields before it, and each later Read the fields of the next record of the
\* reference grammar (followed by the empty fields that pad it to FieldCount).
C13_BareCREndsRecord ==
    (impl = OPT /\ srcErr = EOF /\ RefRecords.ok /\ HasBareCR(input, 1, FALSE)) =>
        \A i \in 1..Len(hist) :
            i <= Len(RefRecords.recs) =>
                /\ hist[i].err = ErrNil
                /\ IsPrefix(RefRecords.recs[i], hist[i].rec)
                /\ i = 1 => hist[i].rec = RefRecords.recs[i]

\* ---- the delimiter of the Reader of csvc.go

\* C14: with a delimiter other than the comma, the record of a line is the
\* line cut at the delimiters outside quotes and nowhere else: it has one
\* field more than the line has such delimiters, and a line without quotes is
\* split at every delimiter, a leading or trailing one included.
C14_SplitAtCustomDelimiterOnly ==
    (impl = CSVC /\ Terminated(input) /\ opts.Comma # ASCII_COMMA) =>
        \A i \in ReadRecordLines :
            LET l == RawLine(RecordLines[i]) IN
            Count(l, ASCII_CR) = 0 =>
                /\ Len(hist[i].rec) = Len(SplitOutsideQuotes(l, opts.Comma, <<>>, FALSE))
                /\ Count(l, ASCII_DQ) = 0 => hist[i].rec = SplitOn(l, opts.Comma, <<>>)

\* ---- the number of fields of the records of the Reader of csvc.go

\* the Reader of csvc.go as NewReader and the caller's configuration o leave
\* it, read twice on the input inp that ends with io.EOF
TwoReads(o, inp) ==
    LET first == Read(Configured(NewReader, o), inp, EOF)
        second == Read(first.rd, inp, EOF)
    IN <<first.res, second.res>>

\* the input a,b LF 1,2,3 LF
FieldCountInput ==
    <<"a", ASCII_COMMA, "b", ASCII_LF, "1", ASCII_COMMA, "2", ASCII_COMMA, "3", ASCII_LF>>

\* what two Reads return on it with FieldsPerRecord = 2
FieldCountReads == TwoReads([DefaultOpts EXCEPT !.FieldsPerRecord = 2], FieldCountInput)

\* C15: a Reader with FieldsPerRecord = n > 0 answers each record line, in
\* line order, with ErrFieldCount and no record when the record parsed from it
\* has a number of fields other than n, and with the record and a nil error
\* otherwise; on a,b LF 1,2,3 LF with n = 2 the first Read returns [a b] and
\* the second ErrFieldCount.
C15_FieldCountEnforced ==
    /\ (impl = CSVC /\ opts.FieldsPerRecord > 0) =>
        LET lines == RecordLines IN
        \A i \in 1..Len(hist) :
            i <= Len(lines) =>
                LET record == RecordOf(lines[i]) IN
                hist[i] = IF Len(record) = opts.FieldsPerRecord
                          THEN Result(record, ErrNil)
                          ELSE Result(<<>>, ErrFieldCount)
    /\ FieldCountReads
        = << Result(<< <<"a">>, <<"b">> >>, ErrNil), Result(<<>>, ErrFieldCount) >>

\* with FieldsPerRecord = 2 a record of two fields was returned and the record
\* of one field after it was answered with ErrFieldCount
C15_Witness ==
    /\ impl = CSVC /\ opts.FieldsPerRecord = 2
    /\ Len(hist) = 2 /\ Len(RecordLines) = 2
    /\ hist[1].err = ErrNil /\ Len(hist[1].rec) = 2
    /\ Len(RecordOf(RecordLines[2])) = 1
    /\ hist[2] = Result(<<>>, ErrFieldCount)

IsCommentLine(l, c) ==
    \E i \in 1..Len(l) : l[i] = c /\ \A j \in 1..(i - 1) : IsSpace(l[j])

\* the lines ls without those that c makes comments
RECURSIVE WithoutComments(_, _)
WithoutComments(ls, c) ==
    IF ls = <<>> THEN <<>>
    ELSE IF IsCommentLine(Head(ls), c) THEN WithoutComments(Tail(ls), c)
    ELSE <<Head(ls)>> \o WithoutComments(Tail(ls), c)

\* the lines ls as an input, an LF after each of them
RECURSIVE JoinLines(_)
JoinLines(ls) ==
    IF ls = <<>> THEN <<>> ELSE Head(ls) \o <<ASCII_LF>> \o JoinLines(Tail(ls))

\* the results of n Read calls in a row on the input inp, from the Reader rd on
RECURSIVE ReadsOf(_, _, _, _)
ReadsOf(rd, inp, serr, n) ==
    IF n = 0 THEN <<>>
    ELSE LET out == Read(rd, inp, serr) IN <<out.res>> \o ReadsOf(out.rd, inp, serr, n - 1)

\* a line of the input is a comment
HasCommentLine ==
    \E k \in 1..Len(PhysLines(input)) : IsCommentLine(PhysLines(input)[k], opts.Comment)

BeginsWithHash(l) == l # <<>> /\ l[1] = HASH

\* the first line of the input begins with the byte '#'
FirstLineIsHash == BeginsWithHash(input)

QuotedHashLine ==
    /\ Len(input) >= 4
    /\ input[1] = ASCII_DQ /\ input[Len(input)] = ASCII_DQ
    /\ Count(Inner(input), ASCII_DQ) = 0
    /\ \E k \in 2..(Len(input) - 2) : input[k] = ASCII_LF /\ input[k + 1] = HASH

\* C19: a line that begins with the comment character inside a quoted field
\* opened on an earlier line is field data: once the Reads have reached the
\* end of the input, the '#' is in a record they returned.
C19_CommentInsideQuotesIsData ==
    (impl = CSVC /\ opts.Comment = HASH /\ opts.Comma # SP /\ srcErr = EOF
        /\ QuotedHashLine /\ Len(hist) >= 1 /\ hist[Len(hist)].err = EOF) =>
        \E i \in 1..Len(hist) : CountIn(hist[i].rec, HASH) > 0

\* ---- ReadAll of the Reader of csvc.go

\* the results of the Read calls that a new Reader of the caller's
\* configuration makes on the input: those made so far, and after them as
\* many as there are lines and one more
AllReads ==
    ReadsOf(Configured(NewReader, opts), input, srcErr,
            Len(hist) + Len(PhysLines(input)) + 1)

\* the index of the first result of rs after the k-th that holds an error
RECURSIVE FirstError(_, _)
FirstError(rs, k) == IF rs[k + 1].err # ErrNil THEN k + 1 ELSE FirstError(rs, k + 1)

\* C20: ReadAll, called after k Read calls, returns in order the records
\* that the Read calls after the k-th would return up to the first that
\* returns an error: with a nil error when that error is io.EOF, and else with
\* that error.
C20_ReadAllIsReadUntilError ==
    (impl = CSVC /\ all # NotCalled) =>
        LET k == Len(hist)
            rs == AllReads
            e == FirstError(rs, k)
        IN /\ hist = SubSeq(rs, 1, k)
           /\ rs[e].err = EOF =>
                /\ all.err = ErrNil
                /\ all.records = [i \in 1..(e - 1 - k) |-> rs[k + i].rec]
           /\ rs[e].err # EOF => all.err = rs[e].err

\* ReadAll was called after one Read and returned the one record left, which
\* is not the record that the Read returned
C20_Witness ==
    /\ impl = CSVC /\ all # NotCalled /\ srcErr = EOF
    /\ Len(hist) = 1 /\ hist[1].err = ErrNil
    /\ all.err = ErrNil
    /\ Len(all.records) = 1
    /\ all.records[1] # hist[1].rec

\* ---- the errors of the ParseError-reporting Reader

BareQuote == "bare quote"
OpenQuote == "open quote"
NoError == "no error"
Unspecified == "text after a closing quote"

\* The first error of the input by the reference grammar, read from the start
\* i of a field on, n records being finished: its kind, the position pos of
\* the offending byte (the quote of a bare quote, the end of the input for a
\* quoted field that never closes) and the number n of records before it.
RECURSIVE RefFirstError(_, _, _)
RefFirstError(s, i, n) ==
    LET quoted == i <= Len(s) /\ s[i] = ASCII_DQ
        e == IF quoted THEN QuotedEnd(s, i + 1) ELSE UnquotedEnd(s, i)
    IN IF e = 0 THEN [kind |-> OpenQuote, pos |-> Len(s) + 1, n |-> n]
       ELSE IF e > Len(s) THEN [kind |-> NoError, pos |-> 0, n |-> n]
       ELSE IF s[e] = ASCII_COMMA THEN RefFirstError(s, e + 1, n)
       ELSE IF s[e] = ASCII_LF THEN RefFirstError(s, e + 1, n + 1)
       ELSE IF s[e] = ASCII_CR
       THEN RefFirstError(s, IF e < Len(s) /\ s[e + 1] = ASCII_LF THEN e + 2 ELSE e + 1,
                          n + 1)
       ELSE IF s[e] = ASCII_DQ /\ ~quoted THEN [kind |-> BareQuote, pos |-> e, n |-> n]
       ELSE [kind |-> Unspecified, pos |-> e, n |-> n]

\* the first error of the input
InputError == RefFirstError(input, 1, 0)

\* C21: when the first error of the input is a quote inside an unquoted field,
\* after at least one byte of the field, the Read that meets it (the one after
\* the Reads of the records before it) returns no record and a ParseError
\* whose Err is ErrBareQuote.
C21_BareQuoteIsParseError ==
    (impl = PARSE /\ InputError.kind = BareQuote /\ Len(hist) > InputError.n) =>
        LET res == hist[InputError.n + 1] IN
        /\ res.rec = <<>>
        /\ res.err = ErrBareQuote
        /\ res.line >= 1 /\ res.column >= 1

\* the second Read met a quote after a byte of an unquoted field, on the
\* second line, and returned ErrBareQuote
C21_Witness ==
    /\ impl = PARSE /\ srcChunk = 1
    /\ input = <<"a", ASCII_LF, "a", ASCII_DQ>>
    /\ Len(hist) = 2
    /\ hist[1] = Result(<< <<"a">> >>, ErrNil)
    /\ hist[2].err = ErrBareQuote /\ hist[2].rec = <<>>

\* C23: when the input ends inside a quoted field that is open, the Read that
\* reaches the end returns no record and a ParseError whose Err is
\* ErrUnterminatedQuote, and no later Read returns a record.
C23_OpenQuoteAtEndIsParseError ==
    (impl = PARSE /\ srcErr = EOF /\ InputError.kind = OpenQuote
        /\ Len(hist) > InputError.n) =>
        LET k == InputError.n + 1 IN
        /\ hist[k].rec = <<>>
        /\ hist[k].err = ErrUnterminatedQuote
        /\ hist[k].line >= 1 /\ hist[k].column >= 1
        /\ \A i \in (k + 1)..Len(hist) : hist[i] = Result(<<>>, EOF)

\* the second Read reached the end of the input inside the quoted field opened
\* on the second line, and the third Read returned io.EOF
C23_Witness ==
    /\ impl = PARSE /\ srcErr = EOF
    /\ input = <<"a", ASCII_LF, ASCII_DQ, "a", ASCII_LF>>
    /\ Len(hist) = 3
    /\ hist[1].err = ErrNil
    /\ hist[2].err = ErrUnterminatedQuote /\ hist[2].rec = <<>>
    /\ hist[3] = Result(<<>>, EOF)

\* the number of bytes of the input that the Reads have consumed
Consumed == pr.srcPos - pr.bufLen + pr.bufPos

\* the 1-based number of the physical line of the k-th byte of s
LineOf(s, k) == 1 + Count(SubSeq(s, 1, k - 1), ASCII_LF)

\* the 1-based position of the k-th byte of s within its physical line
ColumnOf(s, k) ==
    LET before == {j \in 1..(k - 1) : s[j] = ASCII_LF}
        start == IF before = {} THEN 0 ELSE CHOOSE j \in before : \A m \in before : m <= j
    IN k - start

\* C24: a Read that returns ErrBareQuote reports the line and the column of
\* the quote it stopped at, the last byte it consumed (inputs without CR, so
\* that the physical lines are those that LF ends).
C24_ParseErrorLocatesByte ==
    (impl = PARSE /\ Count(input, ASCII_CR) = 0 /\ Len(hist) >= 1
        /\ hist[Len(hist)].err = ErrBareQuote) =>
        /\ hist[Len(hist)].line = LineOf(input, Consumed)
        /\ hist[Len(hist)].column = ColumnOf(input, Consumed)

\* The line breaks among the first stop bytes of s as a CSV reader counts
\* them: every LF, and every CR outside quotes (with the LF after it, if any,
\* as the same break); i is the next byte, inQ that it lies inside quotes.
RECURSIVE LineBreaks(_, _, _, _)
LineBreaks(s, i, inQ, stop) ==
    IF i > stop THEN 0
    ELSE IF s[i] = ASCII_DQ THEN LineBreaks(s, i + 1, ~inQ, stop)
    ELSE IF s[i] = ASCII_LF THEN 1 + LineBreaks(s, i + 1, inQ, stop)
    ELSE IF s[i] = ASCII_CR /\ ~inQ
    THEN 1 + LineBreaks(s, IF i < Len(s) /\ s[i + 1] = ASCII_LF THEN i + 2 ELSE i + 1,
                        inQ, stop)
    ELSE LineBreaks(s, i + 1, inQ, stop)

\* no Read has returned a ParseError
NoParseError == \A i \in 1..Len(hist) : hist[i].err \in {ErrNil, EOF, ErrIO}

\* the last Read returned a record that the LF just consumed ended
RecordEndedAtLF ==
    /\ Len(hist) >= 1
    /\ hist[Len(hist)].err = ErrNil
    /\ Consumed >= 1 /\ input[Consumed] = ASCII_LF

\* C25: the line counter starts at 1 and counts every line break consumed, the
\* one that ends the record included: after a Read it equals the number of the
\* physical line on which the next Read starts, one more than the last line of
\* the returned record.
C25_LineCounterIsNextLine ==
    (impl = PARSE /\ srcErr = EOF /\ NoParseError) =>
        /\ pr.line = 1 + LineBreaks(input, 1, FALSE, Consumed)
        /\ (Count(input, ASCII_CR) = 0 /\ RecordEndedAtLF) =>
                pr.line = LineOf(input, Consumed) + 1

\* C25 as stated: after a Read the counter is the number of the last physical
\* line of the returned record.
C25_LineCounterIsLastLineOfRecord ==
    (impl = PARSE /\ srcErr = EOF /\ NoParseError /\ Count(input, ASCII_CR) = 0
        /\ RecordEndedAtLF) =>
        pr.line = LineOf(input, Consumed)

\* one Read returned a record of two fields, the second with a line break
\* inside quotes, and left the counter at 3
C25_Witness ==
    /\ impl = PARSE /\ srcErr = EOF
    /\ input = <<ASCII_COMMA, ASCII_DQ, ASCII_LF, ASCII_DQ, ASCII_LF>>
    /\ Len(hist) = 1
    /\ hist[1] = Result(<< <<>>, <<ASCII_LF>> >>, ErrNil)
    /\ pr.line = 3

\* ---- quotes in the Reader of src/csvc.go

\* the error of csvc.go for a quote inside a quoted field that is not doubled
ErrQuote == "ErrQuote"

\* the first line of the input begins an unquoted field with the byte a and
\* has a quote in that field
BareQuoteInFirstField ==
    \E k \in 2..Len(input) :
        /\ input[k] = ASCII_DQ
        /\ \A j \in 1..(k - 1) : input[j] = "a"

\* C22: with LazyQuotes false, the first Read of an input whose first field is
\* unquoted and holds a quote returns no record and the error ErrBareQuote or
\* ErrQuote.
C22_StrictQuotesRejectBareQuote ==
    (impl = CSVC /\ ~r.LazyQuotes /\ srcErr = EOF /\ BareQuoteInFirstField
        /\ Len(hist) >= 1) =>
        /\ hist[1].rec = <<>>
        /\ hist[1].err \in {ErrBareQuote, ErrQuote}

\* ---- quotes in unquoted fields of the optimized automaton Reader

\* the bytes of the input before its first LF
FirstLine == LET nl == IndexLF(input, 1) IN SubSeq(input, 1, nl - 1)

\* the input begins with a terminated line that is one unquoted field (it
\* begins with the byte a and has no delimiter and no CR) with a quote in it
QuoteInUnquotedLine ==
    /\ IndexLF(input, 1) > 0
    /\ FirstLine # <<>> /\ FirstLine[1] = "a"
    /\ Count(FirstLine, ASCII_DQ) > 0
    /\ Count(FirstLine, ASCII_COMMA) = 0 /\ Count(FirstLine, ASCII_CR) = 0

\* C30: a quote inside an unquoted field is a byte of the field and the record
\* ends at the next line terminator: the first Read of an input whose first
\* line is one unquoted field with a quote in it returns that line as the one
\* field of the record.
C30_QuoteInUnquotedFieldIsLiteral ==
    (impl = OPT /\ srcErr = EOF /\ QuoteInUnquotedLine /\ Len(hist) >= 1) =>
        hist[1] = Result(<<FirstLine>>, ErrNil)

\* ---- the automaton Readers

\* C28: the automaton Reader returns one record for every physical line of
\* the input and io.EOF only after the last one; an empty line gives a record
\* whose fields are all empty (one empty field when it is the first line), with
\* a nil error.
C28_EmptyLineIsRecord ==
    (impl = AUTO /\ srcErr = EOF) =>
        LET ls == PhysLines(input) IN
        \A i \in 1..Len(hist) :
            IF i <= Len(ls)
            THEN /\ hist[i].err = ErrNil
                 /\ hist[i].rec # <<>>
                 /\ RawLine(ls[i]) = <<>> =>
                        /\ \A k \in 1..Len(hist[i].rec) : hist[i].rec[k] = <<>>
                        /\ i = 1 => hist[i].rec = << <<>> >>
            ELSE hist[i] = Result(<<>>, EOF)

\* the input is one LF: the first Read returned the record of one empty field
\* and the second io.EOF
C28_Witness ==
    /\ impl = AUTO /\ srcErr = EOF
    /\ input = <<ASCII_LF>>
    /\ hist = <<Result(<< <<>> >>, ErrNil), Result(<<>>, EOF)>>

\* the 1-based index of the second quote of an input that begins with a quoted
\* field closed by a quote before the byte a, and has no other quote and no
\* line terminator; 0 for any other input
ClosingQuote ==
    IF /\ Len(input) >= 3 /\ input[1] = ASCII_DQ
       /\ Count(input, ASCII_DQ) = 2
       /\ Count(input, ASCII_LF) = 0 /\ Count(input, ASCII_CR) = 0
    THEN LET k == CHOOSE j \in 2..Len(input) : input[j] = ASCII_DQ
         IN IF k < Len(input) /\ input[k + 1] = "a" THEN k ELSE 0
    ELSE 0

\* the example of the claim: "ab"cd,e
QuoteThenText == <<ASCII_DQ, "a", "b", ASCII_DQ, "c", "d", ASCII_COMMA, "e">>

\* C29: in both automaton Readers a byte after the closing quote of a quoted
\* field that is neither quote nor delimiter begins a new unquoted field: the
\* record is the quoted text followed by the fields of the bytes after the
\* closing quote; "ab"cd,e gives the fields ab, cd, e.
C29_TextAfterClosingQuoteIsNewField ==
    /\ (impl \in {AUTO, OPT} /\ srcErr = EOF /\ ClosingQuote > 0 /\ Len(hist) >= 1) =>
        LET k == ClosingQuote IN
        hist[1] = Result(<<SubSeq(input, 2, k - 1)>>
                            \o SplitOn(SubSeq(input, k + 1, Len(input)), ASCII_COMMA, <<>>),
                         ErrNil)
    /\ ReadAuto(NewAutoReader, QuoteThenText, EOF).res
            = Result(<< <<"a", "b">>, <<"c", "d">>, <<"e">> >>, ErrNil)
    /\ ReadOpt(NewOptReader, QuoteThenText, EOF).res
            = Result(<< <<"a", "b">>, <<"c", "d">>, <<"e">> >>, ErrNil)

\* the automaton Reader of part_006 read "a"a, and returned the fields a, a and
\* the empty field
C29_Witness ==
    /\ impl = AUTO /\ srcErr = EOF
    /\ input = <<ASCII_DQ, "a", ASCII_DQ, "a", ASCII_COMMA>>
    /\ Len(hist) = 1
    /\ hist[1].rec = << <<"a">>, <<"a">>, <<>> >>

\* ---- the memory of the records of the ParseError-reporting Reader

\* the bytes a caller reads now in the string str: the bytes of the copy, which
\* are those of the record the Read that made it returned, or the bytes now
\* in the Reader's buffer
BytesOf(str) ==
    IF str[1] THEN SubSeq(heap.dataBuf, str[2] + 1, str[3]) ELSE hist[str[2]].rec[str[3]]

\* the fields a caller reads now in the slice sl
FieldsOf(sl) == [k \in 1..sl.len |-> BytesOf(heap.arrays[sl.arr][k])]

\* the Reads i and j both returned a record
BothReturned(i, j) == hist[i].err = ErrNil /\ hist[j].err = ErrNil

\* C26: without ReuseRecord every record a Read returned still reads as it
\* was returned, whatever Reads followed; none of its strings looks into the
\* Reader's buffer, and its array is the array of no other returned record.
C26_RecordsAreIndependent ==
    (impl = PARSE /\ ~pr.ReuseRecord) =>
        \A i \in 1..Len(hist) :
            LET sl == heap.returned[i] IN
            IF hist[i].err # ErrNil THEN sl = NilSlice
            ELSE /\ FieldsOf(sl) = hist[i].rec
                 /\ \A k \in 1..sl.len : heap.arrays[sl.arr][k] = CopyOf(i, k)
                 /\ \A j \in 1..Len(hist) :
                        (j # i /\ hist[j].err = ErrNil) => heap.returned[j].arr # sl.arr

\* two Reads returned the records [a] and [a, a]; the first still reads [a]
C26_Witness ==
    /\ impl = PARSE /\ ~pr.ReuseRecord
    /\ input = <<"a", ASCII_LF, "a", ASCII_COMMA, "a">>
    /\ Len(hist) = 2
    /\ hist[2].rec = << <<"a">>, <<"a">> >>
    /\ FieldsOf(heap.returned[1]) = << <<"a">> >>

\* the capacity of r.record after the first i Reads: that of NewReader, or
\* the number of fields of the largest record returned if that is more
RECURSIVE CapAfter(_)
CapAfter(i) ==
    IF i = 0 THEN recordCap
    ELSE LET c == CapAfter(i - 1)
             n == IF hist[i].err = ErrNil THEN Len(hist[i].rec) ELSE 0
         IN IF n > c THEN n ELSE c

\* C27: with ReuseRecord two consecutive Reads that return a record return
\* slices over the same backing array when the later record has no more
\* fields than the capacity of r.record, and then the fields of the earlier
\* slice that the later record has read as the later record's; a later record
\* with more fields gets a new array of that many fields.
C27_RecordArrayIsReusedWithinCapacity ==
    (impl = PARSE /\ pr.ReuseRecord) =>
        \A i \in 1..(Len(hist) - 1) :
            BothReturned(i, i + 1) =>
                LET a == heap.returned[i]
                    b == heap.returned[i + 1]
                IN /\ a.cap = CapAfter(i) /\ b.cap = CapAfter(i + 1)
                   /\ IF b.len <= a.cap
                      THEN /\ b.arr = a.arr
                           /\ i + 1 = Len(hist) =>
                                \A k \in 1..(IF a.len < b.len THEN a.len ELSE b.len) :
                                    FieldsOf(a)[k] = hist[i + 1].rec[k]
                      ELSE b.arr # a.arr /\ b.cap = b.len

\* C27 as stated: two consecutive Reads that return a record return slices
\* over the same backing array.
C27_RecordArrayIsAlwaysReused ==
    (impl = PARSE /\ pr.ReuseRecord) =>
        \A i \in 1..(Len(hist) - 1) :
            BothReturned(i, i + 1) => heap.returned[i + 1].arr = heap.returned[i].arr

\* two Reads returned [a] and [, ] over the same array, and the slice of the
\* first now reads as one empty field
C27_Witness ==
    /\ impl = PARSE /\ pr.ReuseRecord
    /\ input = <<"a", ASCII_LF, ASCII_COMMA, ASCII_LF>>
    /\ Len(hist) = 2
    /\ hist[1].rec = << <<"a">> >>
    /\ hist[2].rec = << <<>>, <<>> >>
    /\ heap.returned[1].arr = heap.returned[2].arr
    /\ FieldsOf(heap.returned[1]) = << <<>> >>

\* ---- the Reads after an error

\* the bytes of the input behind the offending quote of its first error
AfterBareQuote == SubSeq(input, InputError.pos + 1, Len(input))

\* the first error of the input is a bare quote, and the bytes behind it hold
\* no quote and no CR: text, delimiters and LF only
BareQuoteThenPlainText ==
    /\ InputError.kind = BareQuote
    /\ Count(AfterBareQuote, ASCII_DQ) = 0
    /\ Count(AfterBareQuote, ASCII_CR) = 0

\* C31: after the Read that returned ErrBareQuote the next Read returns an
\* error (io.EOF included), or the record of the line that begins after the
\* LF that ends the erroring line.
C31_ReadAfterBareQuoteSkipsLine ==
    (impl = PARSE /\ srcErr = EOF /\ BareQuoteThenPlainText
        /\ Len(hist) >= InputError.n + 2) =>
        LET next == hist[InputError.n + 2]
            rest == AfterBareQuote
            nl == IndexLF(rest, 1)
            after == SubSeq(rest, nl + 1, Len(rest))
            nl2 == IndexLF(after, 1)
            line == IF nl2 = 0 THEN after ELSE SubSeq(after, 1, nl2 - 1)
        IN \/ next.err # ErrNil
           \/ /\ nl > 0 /\ after # <<>>
              /\ next.rec = SplitOn(line, ASCII_COMMA, <<>>)

\* the lines ls without the i-th of those that are record lines
RECURSIVE DropRecordLine(_, _, _)
DropRecordLine(ls, comment, i) ==
    IF ls = <<>> THEN <<>>
    ELSE IF ~IsRecordLine(Head(ls), comment)
    THEN <<Head(ls)>> \o DropRecordLine(Tail(ls), comment, i)
    ELSE IF i = 1 THEN Tail(ls)
    ELSE <<Head(ls)>> \o DropRecordLine(Tail(ls), comment, i - 1)

\* the sequence s without its i-th element
Without(s, i) == SubSeq(s, 1, i - 1) \o SubSeq(s, i + 1, Len(s))

\* the Reader after n Read calls in a row on the input inp, from rd on
RECURSIVE ReaderAfter(_, _, _, _)
ReaderAfter(rd, inp, serr, n) ==
    IF n = 0 THEN rd ELSE ReaderAfter(Read(rd, inp, serr).rd, inp, serr, n - 1)

\* C32: a Read that returns ErrFieldCount consumes the offending line and
\* nothing else and writes no field of the Reader: the other Reads return
\* what they return on the input without that line, and FieldsPerRecord is
\* what it is after them.
C32_FieldCountErrorConsumesOneLine ==
    (impl = CSVC /\ srcErr = EOF) =>
        \A i \in 1..Len(hist) :
            hist[i].err = ErrFieldCount =>
                LET without == JoinLines(DropRecordLine(PhysLines(input), opts.Comment, i))
                    new == Configured(NewReader, opts)
                IN /\ Without(hist, i) = ReadsOf(new, without, EOF, Len(hist) - 1)
                   /\ r.FieldsPerRecord
                        = ReaderAfter(new, without, EOF, Len(hist) - 1).FieldsPerRecord

\* with FieldsPerRecord = 2 the line of one field was refused with
\* ErrFieldCount and the next Read returned the record of the line after it
C32_Witness ==
    /\ impl = CSVC /\ srcErr = EOF /\ opts.FieldsPerRecord = 2
    /\ input = <<"a", ASCII_LF, ASCII_COMMA, "a">>
    /\ Len(hist) = 2
    /\ hist[1] = Result(<<>>, ErrFieldCount)
    /\ hist[2] = Result(<< <<>>, <<"a">> >>, ErrNil)
    /\ r.FieldsPerRecord = 2

\* ---- line terminators inside quoted fields

\* the physical line terminators in s: every LF, and every CR that no LF
\* follows (a CRLF is one terminator)
Terminators(s) ==
    Cardinality({k \in 1..Len(s) :
        \/ s[k] = ASCII_LF
        \/ s[k] = ASCII_CR /\ ~(k < Len(s) /\ s[k + 1] = ASCII_LF)})

\* the input is one quoted field without a quote in it, ended by LF
OneQuotedField ==
    /\ Len(input) >= 3
    /\ input[1] = ASCII_DQ /\ input[Len(input) - 1] = ASCII_DQ
    /\ input[Len(input)] = ASCII_LF
    /\ Count(input, ASCII_DQ) = 2

\* C33: the line terminators inside a quoted field are bytes of the field, do
\* not end the record, and each advances the line counter by one: after the
\* Read of a record of one quoted field the counter is 1, plus the terminators
\* in the field, plus one for the LF that ends the record.
C33_TerminatorsInQuotesAreCounted ==
    (impl = PARSE /\ srcErr = EOF /\ OneQuotedField /\ Len(hist) = 1) =>
        LET field == SubSeq(input, 2, Len(input) - 2) IN
        /\ hist[1] = Result(<<field>>, ErrNil)
        /\ pr.line = 1 + Terminators(field) + 1

\* ---------------------------------------------------------------- C34

\* the results of the first n Reads of the optimized automaton Reader rd
RECURSIVE OptReads(_, _, _, _)
OptReads(rd, inp, serr, n) ==
    IF n = 0 THEN <<>>
    ELSE LET out == ReadOpt(rd, inp, serr)
         IN <<out.res>> \o OptReads(out.rd, inp, serr, n - 1)

\* C34: the records that the optimized automaton Reader returns do not depend
\* on the size of the bufio buffer: with every buffer size the Reads return
\* what they return when no line fills the buffer.
C34_RecordsIndependentOfBufferSize ==
    (impl = OPT /\ srcErr = EOF)
        => LET rs == OptReads(NewOptReader, input, srcErr, Len(hist))
           IN \A i \in 1..Len(hist) : hist[i].rec = rs[i].rec /\ hist[i].err = rs[i].err


\* ---------------------------------------------------------------- C35

\* the input is one line that ends in LF and holds no quote, and the record
\* buffer of the first Read is the line without its LF
QuoteFreeLine ==
    /\ Len(input) >= 1
    /\ input[Len(input)] = ASCII_LF
    /\ \A k \in 1..(Len(input) - 1) : input[k] \notin {ASCII_DQ, ASCII_LF}
    /\ (Len(input) >= 2 => input[Len(input) - 1] # ASCII_CR)

\* the fields that the 5-state automaton of Read makes of the record buffer
SlowPath(buf, comma) ==
    LET a == automaton(buf, comma, 0,
                       [state |-> STATE_START_FIELD, lastWasComma |-> FALSE,
                        fieldStart |-> -1, out |-> <<>>, bounds |-> <<>>])
    IN sliceFields(a.out, lastField(a))

\* C35: for a record buffer without a quote the fast path of the optimized
\* automaton Reader returns the fields that the 5-state automaton of the same
\* Read and the automaton Reader of part_006 make of the same bytes, the empty
\* buffer and buffers with CR bytes included.
C35_FastPathEqualsAutomaton ==
    (impl = OPT /\ srcErr = EOF /\ QuoteFreeLine /\ Len(hist) >= 1)
        => LET buf == SubSeq(input, 1, Len(input) - 1)
           IN /\ hist[1].err = ErrNil
              /\ hist[1].rec = SlowPath(buf, ASCII_COMMA)
              /\ hist[1].rec = ReadAuto(NewAutoReader, input, srcErr).res.rec

\* what holds: the three agree on every buffer that is not empty and holds no CR
C35_NonEmptyNoCR ==
    (impl = OPT /\ srcErr = EOF /\ QuoteFreeLine /\ Len(hist) >= 1
     /\ Len(input) >= 2 /\ \A k \in 1..Len(input) : input[k] # ASCII_CR)
        => LET buf == SubSeq(input, 1, Len(input) - 1)
           IN /\ hist[1].err = ErrNil
              /\ hist[1].rec = SlowPath(buf, ASCII_COMMA)
              /\ hist[1].rec = ReadAuto(NewAutoReader, input, srcErr).res.rec

\* ---------------------------------------------------------------- C36

\* Read of the automaton Reader i
ReadOf(i, rd, inp, serr) ==
    IF i = OPT THEN ReadOpt(rd, inp, serr) ELSE ReadAuto(rd, inp, serr)

\* the results of the first n Reads when no field count has been learned: each
\* Read starts where the one before ended, with FieldCount 0
RECURSIVE RawReads(_, _, _, _, _)
RawReads(i, rd, inp, serr, n) ==
    IF n = 0 THEN <<>>
    ELSE LET out == ReadOf(i, rd, inp, serr)
         IN <<out.res>> \o RawReads(i, [out.rd EXCEPT !.FieldCount = 0], inp, serr, n - 1)

\* n empty strings
EmptyFields(n) == [k \in 1..n |-> <<>>]

\* C36: in both automaton Readers FieldCount is the field count of the first
\* record read and does not change afterwards; a later record with fewer
\* fields is returned with empty strings appended up to FieldCount fields, a
\* record with more fields is returned as it is with a nil error, and every
\* record returned has at least FieldCount fields.
C36_FieldCountPadsShortRecords ==
    (impl \in {OPT, AUTO})
        => LET first == IF impl = OPT THEN NewOptReader ELSE NewAutoReader
               raw == RawReads(impl, first, input, srcErr, Len(hist))
               recs == {i \in 1..Len(hist) : hist[i].err = ErrNil}
           IN /\ \A i \in 1..Len(hist) : hist[i].err = raw[i].err
              /\ recs = {} => ar.FieldCount = 0
              /\ recs # {} =>
                    LET FieldCount == Len(raw[CHOOSE i \in recs : \A j \in recs : i <= j].rec)
                    IN /\ ar.FieldCount = FieldCount
                       /\ FieldCount >= 1
                       /\ \A i \in recs :
                            LET n == Len(raw[i].rec) IN
                            /\ Len(hist[i].rec) >= FieldCount
                            /\ hist[i].rec = IF n < FieldCount
                                             THEN raw[i].rec \o EmptyFields(FieldCount - n)
                                             ELSE raw[i].rec

\* a first record of two fields, a record of one field that was padded, and a
\* record of three fields that was returned as it is
C36_Witness ==
    /\ impl \in {OPT, AUTO}
    /\ input = <<ASCII_COMMA, ASCII_LF, ASCII_LF, ASCII_COMMA, ASCII_COMMA>>
    /\ Len(hist) = 3
    /\ ar.FieldCount = 2
    /\ hist[1] = Result(<<<<>>, <<>>>>, ErrNil)
    /\ hist[2] = Result(<<<<>>, <<>>>>, ErrNil)
    /\ hist[3] = Result(<<<<>>, <<>>, <<>>>>, ErrNil)

\* ---------------------------------------------------------------- C37

\* C37: the record slice that a Read of the optimized automaton Reader returns
\* is not modified by a later Read: every slice returned so far still holds
\* the fields of its record.
C37_ReturnedRecordIsNotModified ==
    (impl = OPT) =>
        \A i \in 1..Len(hist) :
            hist[i].err = ErrNil => FieldsOf(heap.returned[i]) = hist[i].rec

\* ---------------------------------------------------------------- C38

\* the last Read returned io.EOF or an ErrUnterminatedQuote ParseError
StreamEnded ==
    /\ Len(hist) >= 1
    /\ hist[Len(hist)].err \in {EOF, ErrUnterminatedQuote}

\* C38: in the ParseError Reader the end of the stream is absorbing: a Read
\* that follows a Read which returned io.EOF or an ErrUnterminatedQuote
\* ParseError returns (nil, io.EOF) and does not call Read of the byte source;
\* so does every later one, since its predecessor returned io.EOF.
C38_EndOfStreamIsAbsorbing ==
    [][(impl = PARSE /\ StreamEnded)
        => /\ hist' = Append(hist, Result(<<>>, EOF))
           /\ pr'.srcReads = pr.srcReads
           /\ pr'.srcPos = pr.srcPos]_vars

\* an unterminated quoted field, then two Reads that returned io.EOF
C38_Witness ==
    /\ impl = PARSE
    /\ Len(hist) = 3
    /\ hist[1].err = ErrUnterminatedQuote
    /\ hist[2] = Result(<<>>, EOF)
    /\ hist[3] = Result(<<>>, EOF)
    /\ pr.finished
    /\ pr.srcReads >= 2

\* ---------------------------------------------------------------- C39

\* the index pairs idx (start, end, start, end, ...) slice a line of n bytes
ValidIndexes(idx, n) ==
    /\ Len(idx) % 2 = 0
    /\ \A k \in 1..(Len(idx) \div 2) :
        0 <= idx[2 * k - 1] /\ idx[2 * k - 1] <= idx[2 * k] /\ idx[2 * k] <= n

\* the same for a sequence of pairs
ValidBounds(bounds, n) ==
    \A k \in 1..Len(bounds) :
        0 <= bounds[k][1] /\ bounds[k][1] <= bounds[k][2] /\ bounds[k][2] <= n

\* the record buffers of the first n Reads of the optimized automaton Reader
\* from position pos on, as long as readRecord returns no error
RECURSIVE OptBufs(_, _, _, _)
OptBufs(inp, serr, pos, n) ==
    IF n = 0 THEN <<>>
    ELSE LET rr == readRecord(inp, pos, serr, bufioSize, <<>>, FALSE)
         IN IF rr.err # ErrNil THEN <<>>
            ELSE <<rr.buf>> \o OptBufs(inp, serr, rr.pos, n - 1)

\* the string that Read slices for the record buffer buf and the bounds it
\* slices it at (b.starts and b.ends)
OptSlices(buf, comma) ==
    IF \A k \in 1..Len(buf) : buf[k] # ASCII_DQ
    THEN [str |-> buf, bounds |-> fastBounds(buf, comma, 0, 0, <<>>)]
    ELSE LET a == automaton(buf, comma, 0,
                            [state |-> STATE_START_FIELD, lastWasComma |-> FALSE,
                             fieldStart |-> -1, out |-> <<>>, bounds |-> <<>>])
         IN [str |-> a.out, bounds |-> lastField(a)]

\* C39: a Read of the Reader of csvc.go or of the optimized automaton Reader
\* that returns a nil error returns a record of at least one field, and every
\* index pair at which a Read slices its line has 0 <= start <= end <= the
\* length of the line.
C39_RecordHasAFieldAndIndexesAreValid ==
    /\ (impl \in {CSVC, OPT}) =>
            \A i \in 1..Len(hist) : hist[i].err = ErrNil => Len(hist[i].rec) >= 1
    /\ (impl = CSVC) =>
            LET ls == RecordLines IN
            \A i \in 1..Len(hist) :
                hist[i].err \in {ErrNil, ErrFieldCount} =>
                    /\ i <= Len(ls)
                    /\ LET line == TrimSpace(ls[i])
                           idx == fieldIndexesOf(line, opts.Comma)
                       IN /\ ValidIndexes(idx, Len(line))
                          /\ Len(idx) >= 2
                          /\ hist[i].err = ErrNil => Len(hist[i].rec) = Len(idx) \div 2
    /\ (impl = OPT) =>
            LET bufs == OptBufs(input, srcErr, 0, Len(hist)) IN
            \A i \in 1..Len(hist) :
                hist[i].err = ErrNil =>
                    /\ i <= Len(bufs)
                    /\ LET sl == OptSlices(bufs[i], ASCII_COMMA)
                       IN /\ ValidBounds(sl.bounds, Len(sl.str))
                          /\ Len(sl.bounds) >= 1
                          /\ Len(hist[i].rec) >= Len(sl.bounds)

\* the optimized automaton Reader has read a quoted field and the empty field
\* after the Comma that ends the line
C39_Witness ==
    /\ impl = OPT
    /\ input = <<ASCII_DQ, "a", ASCII_DQ, ASCII_COMMA>>
    /\ Len(hist) = 1
    /\ hist[1] = Result(<<<<"a">>, <<>>>>, ErrNil)

\* ---------------------------------------------------------------- C40

\* the results of the first n Reads of the ParseError Reader rd
RECURSIVE ParseReads(_, _, _)
ParseReads(rd, src, n) ==
    IF n = 0 THEN <<>>
    ELSE LET out == ReadParse(rd, src) IN <<out.res>> \o ParseReads(out.st, src, n - 1)

\* the calls that ran step by step returned what Read returns
StepsReturnWhatReadReturns ==
    /\ impl = CSVC => hist = ReadsOf(Configured(NewReader, opts), input, srcErr, Len(hist))
    /\ impl = PARSE => hist = ParseReads(NewParseReader(FALSE), Source, Len(hist))

\* C40: every Read call returns: a call of Read of csvc.go or of the
\* ParseError Reader that has begun comes to its return, on every input, with
\* a source of which at most MaxStalls Reads in a row return neither a byte
\* nor an error.
C40_EveryReadReturns == (pc # Idle) ~> (pc = Idle)

\* a Read of the ParseError Reader that went round the refill loops of
\* readByte and of peekByte as often as the source allows has returned its
\* record
C40_Witness ==
    /\ impl = PARSE
    /\ srcChunk = 1
    /\ input = <<ASCII_CR, ASCII_LF>>
    /\ pc = Idle
    /\ Len(hist) = 1
    /\ hist[1] = Result(<<<<>>>>, ErrNil)
    /\ pr.srcReads = 2 + 2 * MaxStalls

====
